---------------------------- MODULE Spec2Model ----------------------------
(***************************************************************************)
(* Order state model of the sales-order backend (src/Controller/Logic.js). *)
(*                                                                         *)
(* The Order Store and the Notification store are the state; one action    *)
(* per request handler (createOrder, editEntry, DeleteData,                *)
(* bulkUploadOrders).  Request payloads are JavaScript objects: a payload  *)
(* is a function whose DOMAIN is the set of keys the caller sent, so that  *)
(* "absent" and "present but falsy" stay distinct as they do in the code.  *)
(*                                                                         *)
(* Money is kept in hundredths (Scale) so that qty * unitPrice *           *)
(* (1 + gst/100) stays an integer; floating point rounding is not          *)
(* modelled.  Time is the counter now; a Date is the value of now at the   *)
(* moment new Date() ran, and NoDate stands for null/undefined.            *)
(***************************************************************************)
EXTENDS Integers, Sequences, FiniteSets, TLC

VARIABLES
    orders,         \* Order collection: _id -> document
    notifications,  \* Notification collection, in insertion order
    emitted,        \* socket events published by the last handled request
    response,       \* HTTP response of the last handled request
    lastReq,        \* the last handled request (history, read by the properties)
    nextId,         \* the _id the store gives the next inserted document
    users,          \* User collection: _id -> [role, assignedToLeader]
    now,            \* clock; also the number of requests handled so far
    changeStream,   \* Order.watch(): whether it is open, and the change
                    \* events the store has produced and not yet delivered
    sockets,        \* connected sockets, in order of connection: the rooms
                    \* each has joined
    inflight        \* requests between the read and the write of their
                    \* handler, each with the document it has read

vars == <<orders, notifications, emitted, response, lastReq, nextId, users, now,
          changeStream, sockets, inflight>>

----------------------------------------------------------------------------
(* Bounds of the model *)

\* requests handled in a behaviour of the create specification
MaxCreateOps == 1
\* requests handled in a behaviour of the edit specification
MaxEditOps == 3
\* requests handled in a behaviour of the full specification
MaxOps == 3

\* requests handled in a behaviour of the workflow specification
MaxWorkflowOps == 3

\* requests handled in a behaviour of the access specification
MaxAccessOps == 3

\* requests handled in a behaviour of the read specification
MaxReadOps == 3

\* steps taken in a behaviour of the events specification
MaxEventOps == 4
\* requests handled in a behaviour of the import specification
MaxImportOps == 2
MaxExportOps == 4
MaxFanOps == 5
\* steps of a behaviour of the concurrent specification, and of the teams one
MaxConcurrentOps == 6
MaxTeamOps == 4
\* requests that have read and not yet written, at any one time
MaxInflight == 2
\* ticks of the clock now in a day
TicksPerDay == 2
\* sockets connected in a behaviour of the events specification
MaxSockets == 1

----------------------------------------------------------------------------
(* JavaScript values *)

\* value of a string property that is not there
Undefined == "undefined"
NoDate == 0
\* an id that mongoose.Types.ObjectId.isValid refuses
MalformedId == 0
\* gstRate / 100 at Logic.js:397; amounts are stored times Scale
Scale == 100

Has(o, k) == k \in DOMAIN o
Without(o, k) == [x \in DOMAIN o \ {k} |-> o[x]]
\* { ...o, ...upd }
With(o, upd) == [k \in DOMAIN o \cup DOMAIN upd |->
                    IF k \in DOMAIN upd THEN upd[k] ELSE o[k]]
Only(o, keys) == [k \in DOMAIN o \cap keys |-> o[k]]
Str(o, k) == IF k \in DOMAIN o THEN o[k] ELSE Undefined
Truthy(s) == s \notin {"", Undefined}

\* A numeric property as it arrives: a number, the empty string (a blank form
\* field), a non-numeric text, or nothing.
Num(n) == [kind |-> "num", v |-> n]
Blank == [kind |-> "blank", v |-> 0]
Text == [kind |-> "text", v |-> 0]
UndefinedNum == [kind |-> "undefined", v |-> 0]
NaN == [kind |-> "nan", v |-> 0]
NumProp(o, k) == IF k \in DOMAIN o THEN o[k] ELSE UndefinedNum

\* Number(x)
JsNumber(x) ==
    CASE x.kind = "num" -> x
      [] x.kind = "blank" -> Num(0)
      [] OTHER -> NaN
\* isNaN(x), which coerces with Number first
JsIsNaN(x) == JsNumber(x).kind = "nan"
\* !!x
TruthyNum(x) == (x.kind = "num" /\ x.v # 0) \/ x.kind = "text"
\* Number(x) || 0
NumberOrZero(x) == IF JsNumber(x).kind = "num" THEN JsNumber(x).v ELSE 0
\* Number(x || 0), for the kinds num, blank and undefined
NumberOfOrZero(x) == IF TruthyNum(x) THEN NumberOrZero(x) ELSE 0

\* String(n) of a number is the one-element sequence <<n>>, "" is <<>>;
\* NumberOfString reads the decimal string back.
StringOf(n) == <<n>>
EmptyString == <<>>
NumberOfString(s) == IF s = <<>> THEN 0 ELSE s[1]

\* Number(gst) for the gst strings of the model; any other text is NaN
GstNumbers == [x \in {"0", "18"} |-> IF x = "0" THEN 0 ELSE 18]
GstIsNaN(g) == g \notin DOMAIN GstNumbers \cup {""}
\* product.gst === "including" ? 0 : Number(product.gst) || 0
gstRate(g) ==
    IF g = "including" THEN 0
    ELSE IF g \in DOMAIN GstNumbers THEN GstNumbers[g] ELSE 0

Min(S) == CHOOSE m \in S : \A n \in S : m <= n

RECURSIVE SumSeq(_)
SumSeq(s) == IF s = <<>> THEN 0 ELSE Head(s) + SumSeq(Tail(s))

----------------------------------------------------------------------------
(* Responses, notifications, rooms *)

\* the counts of a response that carries none
NoCounts == [all |-> 0, installation |-> 0, production |-> 0, dispatch |-> 0]

\* a response; orders and counts are filled by the read handlers
Response(status, error, details, data) ==
    [status |-> status, error |-> error, details |-> details, data |-> data,
     orders |-> {}, counts |-> NoCounts]
\* res.json(orders)
Listing(ids) == [Response(200, "", "", 0) EXCEPT !.orders = ids]
NoResponse == Response(0, "", "", 0)
NoRequest == [op |-> "none"]

UserRoom(id) == [kind |-> "user", id |-> id]
AdminsRoom == [kind |-> "admins", id |-> 0]

\* new Notification({message, timestamp, isRead: false, role: "All", userId})
Notification(action, req, order) ==
    [action |-> action, userId |-> req.user.id, order |-> order._id,
     timestamp |-> now, isRead |-> FALSE, role |-> "All"]

\* notifRooms of createOrder and editEntry
notifRooms(order) ==
    (IF order.createdBy # 0 THEN {UserRoom(order.createdBy)} ELSE {})
    \cup (IF order.assignedTo # 0 THEN {UserRoom(order.assignedTo)} ELSE {})
    \cup {AdminsRoom}

Event(name, rooms, id) == [name |-> name, rooms |-> rooms, order |-> id]

----------------------------------------------------------------------------
(* createOrder *)

validDispatchLocations ==
    {"Patna", "Bareilly", "Ranchi", "Morinda", "Lucknow", "Delhi", "Jaipur",
     "Rajasthan"}

\* JSON.parse of products when it arrives as a string
ParseProducts(products) ==
    IF products.form = "badjson"
    THEN [ok |-> FALSE, items |-> <<>>]
    ELSE [ok |-> TRUE, items |-> products.items]

\* orderTypeFieldError without the Demo check
orderTypeFieldError_NoDemoCheck(body) ==
    LET orderType == Str(body, "orderType") IN
    IF orderType = "B2G" /\ ~Truthy(Str(body, "gemOrderNumber"))
    THEN "Missing GEM Order Number"
    ELSE IF ~Truthy(Str(body, "paymentTerms")) /\ orderType # "Demo"
    THEN "Payment Terms is required for non-Demo orders"
    ELSE ""

\* the orderType-specific required fields
orderTypeFieldError(body) ==
    LET orderType == Str(body, "orderType") IN
    IF orderType = "B2G" /\ ~Truthy(Str(body, "gemOrderNumber"))
    THEN "Missing GEM Order Number"
    ELSE IF orderType = "Demo" /\ ~Truthy(Str(body, "demoDate"))
    THEN "Missing Demo Date"
    ELSE IF ~Truthy(Str(body, "paymentTerms")) /\ orderType # "Demo"
    THEN "Payment Terms is required for non-Demo orders"
    ELSE ""

\* calculatedFulfillingStatus that looks at the origin alone
calculatedFulfillingStatus_OriginOnly(body) ==
    IF Str(body, "dispatchFrom") # "Morinda" THEN "Fulfilled" ELSE "Not Fulfilled"

calculatedFulfillingStatus(body) ==
    IF Str(body, "orderType") = "Demo" \/ Str(body, "dispatchFrom") # "Morinda"
    THEN "Fulfilled"
    ELSE "Not Fulfilled"

dispatchFromError(body) ==
    IF Truthy(Str(body, "dispatchFrom"))
       /\ Str(body, "dispatchFrom") \notin validDispatchLocations
    THEN "Invalid dispatchFrom value"
    ELSE ""

\* !product.modelNos: only a missing or empty-string value is falsy
ModelNosFalsy(p) ==
    ~Has(p, "modelNos") \/ (p.modelNos.csv /\ p.modelNos.items = <<>>)

\* createProductError without the unitPrice < 0 check
createProductError_NoPriceCheck(product) ==
    IF \/ ~Truthy(Str(product, "productType"))
       \/ ~TruthyNum(NumProp(product, "qty"))
       \/ ~Truthy(Str(product, "gst"))
       \/ ~Truthy(Str(product, "warranty"))
    THEN <<"Invalid product data",
           "Each product must have productType, qty, gst, and warranty">>
    ELSE IF \/ JsIsNaN(NumProp(product, "qty"))
            \/ JsNumber(NumProp(product, "qty")).v <= 0
            \/ JsIsNaN(NumProp(product, "unitPrice"))
            \/ (product.gst # "including" /\ GstIsNaN(product.gst))
    THEN <<"Invalid product data",
           "qty must be positive, unitPrice must be non-negative, and gst must be valid">>
    ELSE IF product.productType = "IFPD"
            /\ (ModelNosFalsy(product) \/ ~Truthy(Str(product, "brand")))
    THEN <<"Model Numbers and Brand are required for IFPD products", "">>
    ELSE <<"", "">>

\* the three checks of the product loop; <<error, details>> or <<"", "">>
createProductError(product) ==
    IF \/ ~Truthy(Str(product, "productType"))
       \/ ~TruthyNum(NumProp(product, "qty"))
       \/ ~Truthy(Str(product, "gst"))
       \/ ~Truthy(Str(product, "warranty"))
    THEN <<"Invalid product data",
           "Each product must have productType, qty, gst, and warranty">>
    ELSE IF \/ JsIsNaN(NumProp(product, "qty"))
            \/ JsNumber(NumProp(product, "qty")).v <= 0
            \/ JsIsNaN(NumProp(product, "unitPrice"))
            \/ JsNumber(NumProp(product, "unitPrice")).v < 0
            \/ (product.gst # "including" /\ GstIsNaN(product.gst))
    THEN <<"Invalid product data",
           "qty must be positive, unitPrice must be non-negative, and gst must be valid">>
    ELSE IF product.productType = "IFPD"
            /\ (ModelNosFalsy(product) \/ ~Truthy(Str(product, "brand")))
    THEN <<"Model Numbers and Brand are required for IFPD products", "">>
    ELSE <<"", "">>

\* the loop returns at the first product that fails
createProductsError(parsedProducts) ==
    LET bad == {i \in 1..Len(parsedProducts) :
                    createProductError(parsedProducts[i])[1] # ""}
    IN IF bad = {} THEN <<"", "">>
       ELSE createProductError(parsedProducts[Min(bad)])

\* product.warranty || (B2G ? "As Per Tender" : IFPD && Promark ? "3 Years" : "1 Year")
createWarranty(product, orderType) ==
    IF Truthy(Str(product, "warranty")) THEN product.warranty
    ELSE IF orderType = "B2G" THEN "As Per Tender"
    ELSE IF Str(product, "productType") = "IFPD" /\ Str(product, "brand") = "Promark"
    THEN "3 Years"
    ELSE "1 Year"

\* the product as the loop leaves it and the store keeps it
createProduct(product, orderType) ==
    [productType |-> product.productType,
     qty |-> JsNumber(product.qty).v,
     unitPrice |-> JsNumber(product.unitPrice).v,
     gst |-> product.gst,
     warranty |-> createWarranty(product, orderType),
     brand |-> IF Truthy(Str(product, "brand")) THEN product.brand ELSE "",
     serialNos |-> IF Has(product, "serialNos") THEN product.serialNos ELSE <<>>,
     modelNos |-> IF Has(product, "modelNos") THEN product.modelNos.items ELSE <<>>]

\* lineTotal that leaves the gst out
lineTotal_NoGst(product) == product.qty * product.unitPrice * Scale

\* qty * unitPrice * (1 + gstRate / 100), in hundredths
lineTotal(product) ==
    product.qty * product.unitPrice * (Scale + gstRate(product.gst))

productsTotal(products) ==
    SumSeq([i \in 1..Len(products) |-> lineTotal(products[i])])

\* the reduce over the products plus freight plus installation, in hundredths
calculatedTotal(products, body) ==
    productsTotal(products)
    + Scale * NumberOfOrZero(NumProp(body, "freightcs"))
    + Scale * NumberOfOrZero(NumProp(body, "installation"))

calculatedPaymentDue(products, body) ==
    calculatedTotal(products, body)
    - Scale * NumberOfOrZero(NumProp(body, "paymentCollected"))

\* x !== undefined && !isNaN(x)
IsOverride(x) == x.kind # "undefined" /\ ~JsIsNaN(x)

\* total: total !== undefined && !isNaN(total) ? Number(total) : calculatedTotal
createTotal(products, body) ==
    IF IsOverride(NumProp(body, "total"))
    THEN Scale * JsNumber(body.total).v
    ELSE calculatedTotal(products, body)

\* paymentDue: ... ? String(paymentDue) : String(calculatedPaymentDue)
createPaymentDue(products, body) ==
    IF IsOverride(NumProp(body, "paymentDue"))
    THEN StringOf(Scale * JsNumber(body.paymentDue).v)
    ELSE StringOf(calculatedPaymentDue(products, body))

\* String(paymentCollected || "")
createPaymentCollected(body) ==
    IF TruthyNum(NumProp(body, "paymentCollected"))
    THEN StringOf(Scale * NumberOrZero(body.paymentCollected))
    ELSE EmptyString

\* fields of a document that no handler input sets
OrderDefaults ==
    [assignedTo |-> 0, sostatus |-> Undefined, completionStatus |-> Undefined,
     dispatchStatus |-> Undefined, installationStatus |-> Undefined,
     fulfillmentDate |-> NoDate, approvalTimestamp |-> NoDate,
     productsEditTimestamp |-> NoDate, dispatchDate |-> NoDate,
     receiptDate |-> NoDate, remarks |-> Undefined]

\* new Order({...}) of createOrder
createDocument(req, id) ==
    LET body == req.body
        orderType == Str(body, "orderType")
        parsed == ParseProducts(body.products).items
        products == [i \in 1..Len(parsed) |-> createProduct(parsed[i], orderType)]
    IN  [_id |-> id,
         soDate |-> now,
         createdBy |-> req.user.id,
         customername |-> Str(body, "customername"),
         customerEmail |-> Str(body, "customerEmail"),
         products |-> products,
         freightcs |-> NumProp(body, "freightcs"),
         installation |-> NumProp(body, "installation"),
         orderType |-> IF Truthy(orderType) THEN orderType ELSE "B2C",
         total |-> createTotal(products, body),
         paymentCollected |-> createPaymentCollected(body),
         paymentDue |-> createPaymentDue(products, body),
         gemOrderNumber |-> IF Truthy(Str(body, "gemOrderNumber"))
                            THEN body.gemOrderNumber ELSE "",
         paymentTerms |-> IF Truthy(Str(body, "paymentTerms"))
                          THEN body.paymentTerms ELSE "",
         demoDate |-> IF Truthy(Str(body, "demoDate")) THEN body.demoDate ELSE "",
         dispatchFrom |-> Str(body, "dispatchFrom"),
         fulfillingStatus |-> IF Truthy(Str(body, "fulfillingStatus"))
                              THEN body.fulfillingStatus
                              ELSE calculatedFulfillingStatus(body)]
        @@ OrderDefaults

\* the early returns of createOrder, in the order of the code; status 0: none.
\* A request without products passes the field checks and then throws at the
\* product loop (for ... of undefined), which the catch block answers with 500.
createRejection(req) ==
    LET body == req.body
        parse == IF Has(body, "products") THEN ParseProducts(body.products)
                 ELSE [ok |-> TRUE, items |-> <<>>]
    IN
    IF ~parse.ok
    THEN Response(400, "Invalid products format", "", 0)
    ELSE IF orderTypeFieldError(body) # ""
    THEN Response(400, orderTypeFieldError(body), "", 0)
    ELSE IF dispatchFromError(body) # ""
    THEN Response(400, dispatchFromError(body), "", 0)
    ELSE IF ~Has(body, "products")
    THEN Response(500, "Server error", "parsedProducts is not iterable", 0)
    ELSE LET e == createProductsError(parse.items) IN
         IF e[1] # "" THEN Response(400, e[1], e[2], 0) ELSE NoResponse

\* the ids of S in ascending order
RECURSIVE Ascending(_)
Ascending(S) ==
    IF S = {} THEN <<>> ELSE <<Min(S)>> \o Ascending(S \ {Min(S)})

\* a change event of the Order collection; fullDocument holds the document of
\* an insert, and is looked up on delivery for an update
Change(operationType, id, fullDocument) ==
    [operationType |-> operationType, documentKey |-> id,
     fullDocument |-> fullDocument]

\* the change events of one write that takes the collection from old to new
Changes(old, new) ==
    LET inserted == Ascending(DOMAIN new \ DOMAIN old)
        updated == Ascending({id \in DOMAIN old \cap DOMAIN new :
                                old[id] # new[id]})
        deleted == Ascending(DOMAIN old \ DOMAIN new)
    IN  [i \in 1..Len(inserted) |->
            Change("insert", inserted[i], <<new[inserted[i]]>>)]
        \o [i \in 1..Len(updated) |-> Change("update", updated[i], <<>>)]
        \o [i \in 1..Len(deleted) |-> Change("delete", deleted[i], <<>>)]

\* an open change stream receives the change events of the write
Observed(old, new) ==
    IF changeStream.watching
    THEN [changeStream EXCEPT !.changes = @ \o Changes(old, new)]
    ELSE changeStream

\* the request is answered
Served(req) ==
    /\ lastReq' = req
    /\ now' = now + 1
    /\ changeStream' = Observed(orders, orders')
    /\ UNCHANGED sockets

\* the request is answered by a handler that ran from its read to its answer
\* with no other request in between
Answered(req) ==
    /\ Served(req)
    /\ UNCHANGED inflight

\* an order handler answers: the User collection is not written
Handled(req) ==
    /\ Answered(req)
    /\ UNCHANGED users

\* req.io = "throws": io.to(...).emit(...) throws while this request is
\* handled; req.mail = "fails": sendMail rejects. A request without the key is
\* one for which the publish, respectively the mail, goes through.
emitThrows(req) == "io" \in DOMAIN req /\ req.io = "throws"
mailFails(req) == "mail" \in DOMAIN req /\ req.mail = "fails"

\* Nothing is written and nothing is published; the handler answers r.
Refuse(req, r) ==
    /\ response' = r
    /\ emitted' = <<>>
    /\ UNCHANGED <<orders, notifications, nextId>>
    /\ Handled(req)

\* req.db.order and req.db.notification are the outcomes of order.save() and
\* notification.save(): "ok", "validation" (a ValidationError) or "error".
createOrder(req) ==
    /\ req.op = "createOrder"
    /\ IF createRejection(req).status # 0
       THEN Refuse(req, createRejection(req))
       ELSE IF req.db.order = "validation"
       THEN Refuse(req, Response(400, "Validation failed", "messages", 0))
       ELSE IF req.db.order = "error"
       THEN Refuse(req, Response(500, "Server error", "save", 0))
       ELSE LET savedOrder == createDocument(req, nextId) IN
            /\ orders' = (savedOrder._id :> savedOrder) @@ orders
            /\ nextId' = nextId + 1
            /\ IF req.db.notification # "ok"
               THEN /\ response' = Response(500, "Server error", "save", 0)
                    /\ emitted' = <<>>
                    /\ UNCHANGED notifications
               ELSE /\ notifications' = Append(notifications,
                            Notification("New sales order created", req, savedOrder))
                    /\ emitted' = IF emitThrows(req) THEN <<>>
                                  ELSE <<Event("notification",
                                               notifRooms(savedOrder),
                                               savedOrder._id)>>
                    /\ response' = Response(201, "", "", savedOrder._id)
            /\ Handled(req)

----------------------------------------------------------------------------
(* editEntry *)

\* the fields of allowedFields that the model carries, by the type of value
StringFields ==
    {"dispatchFrom", "fulfillingStatus", "completionStatus", "sostatus",
     "dispatchStatus", "installationStatus", "orderType", "customerEmail",
     "customername", "remarks"}
DateFields == {"soDate", "dispatchDate", "receiptDate", "fulfillmentDate"}
AmountFields == {"freightcs", "installation"}
allowedFields ==
    StringFields \cup DateFields \cup AmountFields
    \cup {"products", "total", "paymentCollected", "paymentDue"}

\* has(field): the key is in the payload, whatever its value (null included)
has(req, field) == field \in DOMAIN req.body \cup req.nulls

\* the key is in the payload with a value other than null or undefined
Supplied(req, field) == field \in DOMAIN req.body

\* val && !isNaN(new Date(val)): a date string that parses
ValidDate(x) == x.kind = "num"

\* normalizedProducts: {...p, qty: Number(p.qty), unitPrice: Number(p.unitPrice),
\*                      gst: p.gst || "18", warranty: p.warranty || "1 Year"}
editNormalize(p) ==
    With(p, [qty |-> JsNumber(NumProp(p, "qty")),
             unitPrice |-> JsNumber(NumProp(p, "unitPrice")),
             gst |-> IF Truthy(Str(p, "gst")) THEN p.gst ELSE "18",
             warranty |-> IF Truthy(Str(p, "warranty")) THEN p.warranty
                          ELSE "1 Year"])

\* !p.productType || !p.qty || p.unitPrice < 0 || !p.gst || !p.warranty
editProductInvalid(p) ==
    \/ ~Truthy(Str(p, "productType"))
    \/ p.qty.kind = "nan" \/ p.qty.v = 0
    \/ (p.unitPrice.kind = "num" /\ p.unitPrice.v < 0)
    \/ ~Truthy(p.gst)
    \/ ~Truthy(p.warranty)

\* an array property of a plain object: undefined when the key is missing
ArrayProp(p, k) ==
    IF Has(p, k) THEN [defined |-> TRUE, items |-> p[k]]
    ELSE [defined |-> FALSE, items |-> <<>>]

deepEqual(arr1, arr2) ==
    IF ~arr1.defined \/ ~arr2.defined THEN arr1.defined = arr2.defined
    ELSE arr1.items = arr2.items

\* arraysEqual(normalizedProducts, existingProducts)
arraysEqual(arr1, arr2) ==
    /\ Len(arr1) = Len(arr2)
    /\ \A i \in 1..Len(arr1) :
        /\ Str(arr1[i], "productType") = arr2[i].productType
        /\ arr1[i].qty = Num(arr2[i].qty)
        /\ arr1[i].unitPrice = Num(arr2[i].unitPrice)
        /\ arr1[i].gst = arr2[i].gst
        /\ Str(arr1[i], "brand") = arr2[i].brand
        /\ arr1[i].warranty = arr2[i].warranty
        /\ deepEqual(ArrayProp(arr1[i], "serialNos"), ArrayProp(arr2[i], "serialNos"))
        /\ deepEqual(ArrayProp(arr1[i], "modelNos"), ArrayProp(arr2[i], "modelNos"))
        /\ deepEqual(ArrayProp(arr1[i], "productCode"),
                     ArrayProp(arr2[i], "productCode"))

\* a normalized product as the store keeps it once $set has cast it
editStored(p) ==
    [productType |-> p.productType,
     qty |-> p.qty.v,
     unitPrice |-> p.unitPrice.v,
     gst |-> p.gst,
     warranty |-> p.warranty,
     brand |-> Str(p, "brand"),
     serialNos |-> IF Has(p, "serialNos") THEN p.serialNos ELSE <<>>,
     modelNos |-> IF Has(p, "modelNos") THEN p.modelNos ELSE <<>>]

normalizedProducts(req) ==
    [i \in 1..Len(req.body.products.items) |->
        editNormalize(req.body.products.items[i])]

\* the products branch of the field loop: its early return, if any
editProductsRejection(req) ==
    IF ~Supplied(req, "products") THEN NoResponse
    ELSE IF req.body.products.form # "list"
    THEN Response(400, "Products must be an array", "", 0)
    ELSE IF \E i \in 1..Len(normalizedProducts(req)) :
                editProductInvalid(normalizedProducts(req)[i])
    THEN Response(400, "Invalid product data", "", 0)
    ELSE NoResponse

productsWereEdited(req, existingOrder) ==
    /\ Supplied(req, "products")
    /\ ~arraysEqual(normalizedProducts(req), existingOrder.products)

\* a Number path of the schema cannot hold NaN: $set of such a value throws
castFails(req, existingOrder) ==
    \/ /\ productsWereEdited(req, existingOrder)
       /\ \E i \in 1..Len(normalizedProducts(req)) :
            normalizedProducts(req)[i].unitPrice.kind = "nan"
    \/ Supplied(req, "total") /\ JsIsNaN(req.body.total)

\* loopFields without the allow-list: every key of the payload is copied
loopFields_AnyKey(req, existingOrder) ==
    LET body == req.body
        strings == Only(body, DOMAIN body \ (DateFields \cup
                        {"products", "total", "paymentCollected", "paymentDue"}))
        dates == [k \in {f \in DateFields \cap DOMAIN body : ValidDate(body[f])}
                    |-> body[k].v]
        products == IF productsWereEdited(req, existingOrder)
                    THEN [products |->
                            [i \in 1..Len(normalizedProducts(req)) |->
                                editStored(normalizedProducts(req)[i])]]
                    ELSE <<>>
        total == IF Supplied(req, "total")
                 THEN [total |-> Scale * JsNumber(body.total).v] ELSE <<>>
        collected == IF Supplied(req, "paymentCollected")
                     THEN [paymentCollected |->
                            StringOf(Scale * NumberOrZero(body.paymentCollected))]
                     ELSE <<>>
        due == IF Supplied(req, "paymentDue")
               THEN [paymentDue |-> StringOf(Scale * NumberOrZero(body.paymentDue))]
               ELSE <<>>
    IN  With(With(With(With(With(strings, dates), products), total), collected), due)

\* updateFields as the field loop leaves it
loopFields(req, existingOrder) ==
    LET body == req.body
        strings == Only(body, StringFields \cup AmountFields)
        dates == [k \in {f \in DateFields \cap DOMAIN body : ValidDate(body[f])}
                    |-> body[k].v]
        products == IF productsWereEdited(req, existingOrder)
                    THEN [products |->
                            [i \in 1..Len(normalizedProducts(req)) |->
                                editStored(normalizedProducts(req)[i])]]
                    ELSE <<>>
        total == IF Supplied(req, "total")
                 THEN [total |-> Scale * JsNumber(body.total).v] ELSE <<>>
        collected == IF Supplied(req, "paymentCollected")
                     THEN [paymentCollected |->
                            StringOf(Scale * NumberOrZero(body.paymentCollected))]
                     ELSE <<>>
        due == IF Supplied(req, "paymentDue")
               THEN [paymentDue |-> StringOf(Scale * NumberOrZero(body.paymentDue))]
               ELSE <<>>
    IN  With(With(With(With(With(strings, dates), products), total), collected), due)

\* approvalRule that stamps every edit to "Approved"
approvalRule_EveryTime(updateFields, existingOrder) ==
    IF Str(updateFields, "sostatus") = "Approved"
    THEN With(updateFields, [approvalTimestamp |-> now])
    ELSE updateFields

\* Handle approval timestamp
approvalRule(updateFields, existingOrder) ==
    IF Str(updateFields, "sostatus") = "Approved"
       /\ existingOrder.sostatus # "Approved"
    THEN With(updateFields, [approvalTimestamp |-> now])
    ELSE updateFields

\* Handle products edit timestamp
productsEditRule(updateFields, req, existingOrder) ==
    IF productsWereEdited(req, existingOrder)
    THEN With(updateFields, [productsEditTimestamp |-> now])
    ELSE updateFields

\* fulfillmentRule in which a fulfillingStatus of the payload wins over the rule
fulfillmentRule_ManualWins(updateFields, req, existingOrder) ==
    IF Truthy(Str(updateFields, "dispatchFrom"))
       /\ updateFields.dispatchFrom # existingOrder.dispatchFrom
       /\ ~Has(updateFields, "fulfillingStatus")
    THEN IF updateFields.dispatchFrom = "Morinda"
         THEN With(updateFields, [fulfillingStatus |-> "Pending",
                                  completionStatus |-> "In Progress"])
         ELSE With(updateFields, [fulfillingStatus |-> "Fulfilled",
                                  completionStatus |-> "Complete",
                                  fulfillmentDate |-> now])
    ELSE IF has(req, "fulfillingStatus")
            /\ Str(updateFields, "fulfillingStatus") = "Fulfilled"
    THEN IF existingOrder.fulfillmentDate = NoDate
         THEN With(updateFields, [completionStatus |-> "Complete",
                                  fulfillmentDate |-> now])
         ELSE With(updateFields, [completionStatus |-> "Complete"])
    ELSE updateFields

\* fulfillmentRule that dates the fulfilment only when there is no date yet
fulfillmentRule_KeepsDate(updateFields, req, existingOrder) ==
    IF Truthy(Str(updateFields, "dispatchFrom"))
       /\ updateFields.dispatchFrom # existingOrder.dispatchFrom
    THEN IF updateFields.dispatchFrom = "Morinda"
         THEN With(updateFields, [fulfillingStatus |-> "Pending",
                                  completionStatus |-> "In Progress"])
         ELSE IF existingOrder.fulfillmentDate = NoDate
         THEN With(updateFields, [fulfillingStatus |-> "Fulfilled",
                                  completionStatus |-> "Complete",
                                  fulfillmentDate |-> now])
         ELSE With(updateFields, [fulfillingStatus |-> "Fulfilled",
                                  completionStatus |-> "Complete"])
    ELSE IF has(req, "fulfillingStatus")
            /\ Str(updateFields, "fulfillingStatus") = "Fulfilled"
    THEN IF existingOrder.fulfillmentDate = NoDate
         THEN With(updateFields, [completionStatus |-> "Complete",
                                  fulfillmentDate |-> now])
         ELSE With(updateFields, [completionStatus |-> "Complete"])
    ELSE updateFields

\* fulfillmentRule whose manual branch dates every "Fulfilled" edit
fulfillmentRule_AlwaysDates(updateFields, req, existingOrder) ==
    IF Truthy(Str(updateFields, "dispatchFrom"))
       /\ updateFields.dispatchFrom # existingOrder.dispatchFrom
    THEN IF updateFields.dispatchFrom = "Morinda"
         THEN With(updateFields, [fulfillingStatus |-> "Pending",
                                  completionStatus |-> "In Progress"])
         ELSE With(updateFields, [fulfillingStatus |-> "Fulfilled",
                                  completionStatus |-> "Complete",
                                  fulfillmentDate |-> now])
    ELSE IF has(req, "fulfillingStatus")
            /\ Str(updateFields, "fulfillingStatus") = "Fulfilled"
    THEN With(updateFields, [completionStatus |-> "Complete",
                             fulfillmentDate |-> now])
    ELSE updateFields

\* FULFILLMENT & MORINDA RULE
fulfillmentRule(updateFields, req, existingOrder) ==
    IF Truthy(Str(updateFields, "dispatchFrom"))
       /\ updateFields.dispatchFrom # existingOrder.dispatchFrom
    THEN IF updateFields.dispatchFrom = "Morinda"
         THEN With(updateFields, [fulfillingStatus |-> "Pending",
                                  completionStatus |-> "In Progress"])
         ELSE With(updateFields, [fulfillingStatus |-> "Fulfilled",
                                  completionStatus |-> "Complete",
                                  fulfillmentDate |-> now])
    ELSE IF has(req, "fulfillingStatus")
            /\ Str(updateFields, "fulfillingStatus") = "Fulfilled"
    THEN IF existingOrder.fulfillmentDate = NoDate
         THEN With(updateFields, [completionStatus |-> "Complete",
                                  fulfillmentDate |-> now])
         ELSE With(updateFields, [completionStatus |-> "Complete"])
    ELSE updateFields

\* Auto-set Dispatch Date if status changes to Dispatched or Delivered
dispatchDateRule(updateFields, req, existingOrder) ==
    IF /\ has(req, "dispatchStatus")
       /\ Str(updateFields, "dispatchStatus") \in {"Dispatched", "Delivered"}
       /\ ~has(req, "dispatchDate")
       /\ existingOrder.dispatchDate = NoDate
    THEN With(updateFields, [dispatchDate |-> now])
    ELSE updateFields

\* Set receiptDate if dispatchStatus is "Delivered"
receiptDateRule(updateFields, existingOrder) ==
    IF Str(updateFields, "dispatchStatus") = "Delivered"
       /\ existingOrder.receiptDate = NoDate
    THEN With(updateFields, [receiptDate |-> now])
    ELSE updateFields

\* updateFields as handed to findByIdAndUpdate
updateFields(req, existingOrder) ==
    receiptDateRule(
        dispatchDateRule(
            fulfillmentRule(
                productsEditRule(
                    approvalRule(loopFields(req, existingOrder), existingOrder),
                    req, existingOrder),
                req, existingOrder),
            req, existingOrder),
        existingOrder)

\* the mails editEntry sends once the update is stored, in order
editMails(upd, updatedOrder, existingOrder) ==
    (IF /\ Str(upd, "sostatus") = "Approved"
        /\ Truthy(updatedOrder.customerEmail)
        /\ existingOrder.sostatus # "Approved"
     THEN <<[name |-> "approvalMail", rooms |-> {}, order |-> updatedOrder._id]>>
     ELSE <<>>)
    \o (IF /\ Str(upd, "dispatchStatus") \in {"Dispatched", "Delivered"}
           /\ Truthy(updatedOrder.customerEmail)
        THEN <<[name |-> "statusMail", rooms |-> {}, order |-> updatedOrder._id]>>
        ELSE <<>>)

\* notifRooms of editEntry: createdBy is populated there, so String() of it is
\* the text of a user document and not the user's id
PopulatedRoom(id) == [kind |-> "userDocument", id |-> id]
editNotifRooms(updatedOrder) ==
    {PopulatedRoom(updatedOrder.createdBy)}
    \cup (IF updatedOrder.assignedTo # 0
          THEN {UserRoom(updatedOrder.assignedTo)} ELSE {})
    \cup {AdminsRoom}

\* req.db.order is the outcome of findByIdAndUpdate, req.db.notification that
\* of notification.save().
\* editEntry from findByIdAndUpdate on: existingOrder is the document findById
\* returned, stored the document the update is applied to
editStore(req, existingOrder, stored) ==
    LET upd == updateFields(req, existingOrder)
        updatedOrder == With(stored, upd)
    IN
    /\ orders' = [orders EXCEPT ![req.id] = updatedOrder]
    /\ UNCHANGED nextId
    /\ IF req.db.notification # "ok"
       THEN /\ response' = Response(500, "Server error", "save", 0)
            /\ emitted' = IF mailFails(req) THEN <<>>
                          ELSE editMails(upd, updatedOrder, existingOrder)
            /\ UNCHANGED notifications
       ELSE /\ notifications' = Append(notifications,
                   Notification("Order updated", req, updatedOrder))
            /\ emitted' =
                 (IF mailFails(req) THEN <<>>
                  ELSE editMails(upd, updatedOrder, existingOrder))
                 \o (IF emitThrows(req) THEN <<>>
                     ELSE <<Event("notification",
                                  editNotifRooms(updatedOrder),
                                  updatedOrder._id)>>)
            /\ response' = Response(200, "", "", updatedOrder._id)

editEntry(req) ==
    /\ req.op = "editEntry"
    /\ IF req.id = MalformedId
       THEN Refuse(req, Response(500, "Server error", "findById", 0))
       ELSE IF req.id \notin DOMAIN orders
       THEN Refuse(req, Response(404, "Order not found", "", 0))
       ELSE LET existingOrder == orders[req.id] IN
            IF editProductsRejection(req).status # 0
            THEN Refuse(req, editProductsRejection(req))
            ELSE IF castFails(req, existingOrder) \/ req.db.order # "ok"
            THEN Refuse(req, Response(500, "Server error", "update", 0))
            ELSE /\ editStore(req, existingOrder, existingOrder)
                 /\ Handled(req)

----------------------------------------------------------------------------
(* DeleteData *)

\* targetRooms of DeleteData and bulkUploadOrders
targetRooms(order) ==
    {UserRoom(order.createdBy)}
    \cup (IF order.assignedTo # 0 THEN {UserRoom(order.assignedTo)} ELSE {})

\* the ownership check of DeleteData without the comparison of identities
foreignDelete_TeamScope(user, order) ==
    /\ user.role = "Sales"
    /\ order.createdBy # user.id
    /\ users[order.createdBy].assignedToLeader # user.id

\* req.user.role === "Sales" && order.createdBy.toString() !== req.user.id
foreignDelete(user, order) ==
    /\ user.role = "Sales"
    /\ order.createdBy # user.id

\* req.db.order is the outcome of findByIdAndDelete
\* DeleteData from findByIdAndDelete on: order is the document findById
\* returned
deleteStore(req, order) ==
    /\ orders' = Without(orders, req.id)
    /\ UNCHANGED nextId
    /\ IF req.db.notification # "ok"
       THEN /\ response' = Response(500, "Failed to delete order", "save", 0)
            /\ emitted' = <<>>
            /\ UNCHANGED notifications
       ELSE /\ notifications' = Append(notifications,
                    Notification("Order deleted", req, order))
            /\ IF emitThrows(req)
               THEN \* the emit of deleteOrder is in the outer try
                    /\ emitted' = <<>>
                    /\ response' = Response(500, "Failed to delete order",
                                            "emit", 0)
               ELSE /\ emitted' =
                         <<Event("deleteOrder", targetRooms(order), order._id),
                           Event("notification",
                                 targetRooms(order) \cup {AdminsRoom},
                                 order._id)>>
                    /\ response' = Response(200,
                                     "Order deleted successfully", "", 0)

DeleteData(req) ==
    /\ req.op = "DeleteData"
    /\ IF req.id = MalformedId
       THEN Refuse(req, Response(400, "Invalid order ID", "", 0))
       ELSE IF req.id \notin DOMAIN orders
       THEN Refuse(req, Response(404, "Order not found", "", 0))
       ELSE IF foreignDelete(req.user, orders[req.id])
       THEN Refuse(req, Response(403, "Unauthorized to delete this order", "", 0))
       ELSE IF req.db.order # "ok"
       THEN Refuse(req, Response(500, "Failed to delete order", "delete", 0))
       ELSE /\ deleteStore(req, orders[req.id])
            /\ Handled(req)

----------------------------------------------------------------------------
(* bulkUploadOrders *)

\* the one product built from a sheet row
bulkProduct(row) ==
    [productType |-> IF Truthy(Str(row, "Product Type")) THEN row["Product Type"]
                     ELSE "",
     qty |-> NumberOrZero(NumProp(row, "Quantity")),
     unitPrice |-> NumberOrZero(NumProp(row, "Unit Price")),
     gst |-> IF Truthy(Str(row, "GST")) THEN row["GST"] ELSE "18",
     modelNos |-> IF Has(row, "Model Nos") THEN row["Model Nos"] ELSE <<>>,
     serialNos |-> <<>>,
     brand |-> IF Truthy(Str(row, "Brand")) THEN row["Brand"] ELSE "",
     warranty |-> IF Truthy(Str(row, "Warranty")) THEN row["Warranty"]
                  ELSE IF Str(row, "Order Type") = "B2G" THEN "As Per Tender"
                  ELSE IF Str(row, "Product Type") = "IFPD"
                          /\ Str(row, "Brand") = "Promark"
                  THEN "3 Years"
                  ELSE "1 Year"]

\* the checks on the row's product and on its Dispatch From; "" when it passes
bulkRowError(row) ==
    LET product == bulkProduct(row) IN
    IF \/ product.productType = ""
       \/ product.qty = 0
       \/ product.unitPrice = 0
    THEN "Invalid product data in row"
    ELSE IF \/ product.qty <= 0
            \/ (product.gst # "including" /\ GstIsNaN(product.gst))
    THEN "Invalid product data in row"
    ELSE IF product.productType = "IFPD" /\ product.brand = ""
    THEN "Model Numbers and Brand are required for IFPD products in row"
    ELSE IF Truthy(Str(row, "Dispatch From"))
            /\ row["Dispatch From"] \notin validDispatchLocations
    THEN "Invalid dispatchFrom value in row"
    ELSE ""

\* the order object pushed for a row
bulkDocument(req, row, id) ==
    LET products == <<bulkProduct(row)>>
        total == productsTotal(products)
                 + Scale * NumberOfOrZero(NumProp(row, "Freight Charges"))
                 + Scale * NumberOfOrZero(NumProp(row, "Installation Charges"))
        collected == NumProp(row, "Payment Collected")
    IN  [_id |-> id,
         soDate |-> now,
         createdBy |-> req.user.id,
         customername |-> IF Truthy(Str(row, "Customer Name"))
                          THEN row["Customer Name"] ELSE "",
         customerEmail |-> IF Truthy(Str(row, "Customer Email"))
                           THEN row["Customer Email"] ELSE "",
         products |-> products,
         freightcs |-> IF TruthyNum(NumProp(row, "Freight Charges"))
                       THEN row["Freight Charges"] ELSE Blank,
         installation |-> IF TruthyNum(NumProp(row, "Installation Charges"))
                          THEN row["Installation Charges"] ELSE Blank,
         orderType |-> IF Truthy(Str(row, "Order Type")) THEN row["Order Type"]
                       ELSE "B2C",
         total |-> total,
         paymentCollected |-> IF TruthyNum(collected)
                              THEN StringOf(Scale * NumberOrZero(collected))
                              ELSE EmptyString,
         paymentDue |-> StringOf(total - Scale * NumberOfOrZero(collected)),
         gemOrderNumber |-> IF Truthy(Str(row, "GEM Order Number"))
                            THEN row["GEM Order Number"] ELSE "",
         paymentTerms |-> IF Truthy(Str(row, "Payment Terms"))
                          THEN row["Payment Terms"] ELSE "",
         demoDate |-> "",
         dispatchFrom |-> IF Truthy(Str(row, "Dispatch From"))
                          THEN row["Dispatch From"] ELSE "",
         fulfillingStatus |-> Undefined]
        @@ OrderDefaults

\* one emit of newOrder for each room of each saved order
bulkEvents(docs) ==
    LET RECURSIVE RoomEvents(_, _)
        RoomEvents(rooms, id) ==
            IF rooms = {} THEN <<>>
            ELSE LET r == CHOOSE x \in rooms : TRUE IN
                 <<Event("newOrder", {r}, id)>> \o RoomEvents(rooms \ {r}, id)
        RECURSIVE All(_)
        All(ds) ==
            IF ds = <<>> THEN <<>>
            ELSE RoomEvents(targetRooms(Head(ds)), Head(ds)._id) \o All(Tail(ds))
    IN  All(docs)

\* a row loop that checks only the first row of the sheet
bulkInvalidRow_FirstRowOnly(rows) ==
    IF rows # <<>> /\ bulkRowError(rows[1]) # "" THEN 1 ELSE 0

\* the row at which the loop over the sheet returns; 0 when it runs through
bulkInvalidRow(rows) ==
    LET bad == {i \in 1..Len(rows) : bulkRowError(rows[i]) # ""} IN
    IF bad = {} THEN 0 ELSE Min(bad)

\* req.file: a sheet was uploaded; req.rows: its rows; req.db.order: the
\* outcome of insertMany
bulkUploadOrders(req) ==
    /\ req.op = "bulkUploadOrders"
    /\ IF ~req.file
       THEN Refuse(req, Response(400, "No file uploaded", "", 0))
       ELSE LET bad == bulkInvalidRow(req.rows)
                docs == [i \in 1..Len(req.rows) |->
                            bulkDocument(req, req.rows[i], nextId + i - 1)]
            IN
            IF bad # 0
            THEN Refuse(req, Response(400, bulkRowError(req.rows[bad]),
                                      "row", bad))
            ELSE IF req.db.order = "validation"
            THEN Refuse(req, Response(400, "Validation failed", "messages", 0))
            ELSE IF req.db.order = "error"
            THEN Refuse(req, Response(500, "Server error", "insertMany", 0))
            ELSE /\ orders' = [id \in {docs[i]._id : i \in 1..Len(docs)} |->
                                  docs[id - nextId + 1]] @@ orders
                 /\ IF emitThrows(req) /\ Len(req.rows) > 0
                    THEN \* the emits of newOrder are in the outer try
                         /\ emitted' = <<>>
                         /\ response' = Response(500, "Server error", "emit", 0)
                    ELSE /\ emitted' = bulkEvents(docs)
                         /\ response' = Response(201,
                                "Orders uploaded successfully", "", Len(docs))
                 /\ nextId' = nextId + Len(docs)
                 /\ UNCHANGED notifications
                 /\ Handled(req)

----------------------------------------------------------------------------
(* Users, teams and the read handlers *)

\* the roles of a user
Roles == {"Sales", "Admin", "SuperAdmin"}

\* userRole === "Admin" || userRole === "SuperAdmin"
IsAdmin(user) == user.role \in {"Admin", "SuperAdmin"}

\* teamMembers that follows assignedToLeader over two levels
teamMembers_TwoLevels(userId) ==
    {m \in DOMAIN users :
        \/ users[m].assignedToLeader = userId
        \/ /\ users[m].assignedToLeader \in DOMAIN users
           /\ users[users[m].assignedToLeader].assignedToLeader = userId}

\* User.find({ assignedToLeader: userId }).select("_id")
teamMembers(userId) ==
    {m \in DOMAIN users : users[m].assignedToLeader = userId}

\* [userId, ...teamMemberIds]
allUserIds(userId) == {userId} \cup teamMembers(userId)

\* { $or: [{ createdBy: { $in: allUserIds } }, { assignedTo: { $in: allUserIds } }] }
scopedOrders(userId) ==
    {id \in DOMAIN orders :
        \/ orders[id].createdBy \in allUserIds(userId)
        \/ orders[id].assignedTo \in allUserIds(userId)}

\* the handler answers r and writes nothing
Reply(req, r) ==
    /\ response' = r
    /\ emitted' = <<>>
    /\ UNCHANGED <<orders, notifications, nextId>>
    /\ Handled(req)

\* req.db.order is the outcome of Order.find
getAllOrders(req) ==
    /\ req.op = "getAllOrders"
    /\ IF req.db.order # "ok"
       THEN Reply(req, Response(500, "Server error", "find", 0))
       ELSE Reply(req, Listing(IF IsAdmin(req.user) THEN DOMAIN orders
                               ELSE scopedOrders(req.user.id)))

\* dispatchFromOptions that count Morinda among the standard locations
dispatchFromOptions_AndMorinda ==
    {"Patna", "Bareilly", "Ranchi", "Lucknow", "Delhi", "Jaipur", "Rajasthan",
     "Morinda"}

\* dispatchFromOptions of getDashboardCounts and getProductionOrders
dispatchFromOptions ==
    {"Patna", "Bareilly", "Ranchi", "Lucknow", "Delhi", "Jaipur", "Rajasthan"}

\* the orders that match baseQuery once the spread { ...baseQuery, ... } of a
\* count has replaced its dispatchStatus condition or kept it
dashboardScope(user) ==
    IF IsAdmin(user) THEN DOMAIN orders ELSE scopedOrders(user.id)

\* the orders each count of getDashboardCounts counts
dashboardQuery(user, count) ==
    LET notCancelled ==
            {id \in dashboardScope(user) :
                orders[id].dispatchStatus # "Order Cancelled"}
    IN
    CASE count = "all" -> notCancelled
      [] count = "installation" ->
            {id \in dashboardScope(user) :
                /\ orders[id].dispatchStatus = "Delivered"
                /\ orders[id].installationStatus
                     \in {"Pending", "In Progress", "Site Not Ready", "Hold"}}
      [] count = "dispatch" ->
            {id \in dashboardScope(user) :
                /\ orders[id].fulfillingStatus = "Fulfilled"
                /\ orders[id].dispatchStatus # "Delivered"}
      [] count = "production" ->
            {id \in notCancelled :
                /\ orders[id].sostatus = "Approved"
                /\ orders[id].dispatchFrom \notin dispatchFromOptions
                /\ orders[id].fulfillingStatus # "Fulfilled"}

DashboardCounts == {"all", "installation", "production", "dispatch"}

getDashboardCounts(req) ==
    /\ req.op = "getDashboardCounts"
    /\ IF req.db.order # "ok"
       THEN Reply(req, Response(500, "Failed to fetch dashboard counts", "", 0))
       ELSE Reply(req,
                  [Response(200, "", "", 0) EXCEPT !.counts =
                      [all |-> Cardinality(dashboardQuery(req.user, "all")),
                       installation |->
                            Cardinality(dashboardQuery(req.user, "installation")),
                       production |->
                            Cardinality(dashboardQuery(req.user, "production")),
                       dispatch |->
                            Cardinality(dashboardQuery(req.user, "dispatch"))]])

\* x || ""
OrEmpty(x) == IF Truthy(x) THEN x ELSE ""

\* new Date(d).toISOString().slice(0, 10): the day the instant d lies in
ISODay(d) == d \div TicksPerDay

\* the sheet row of a product of an order; index is the product's position
\* less one. The sheet keeps the keys and the values of the row.
exportRow(entry, product, index) ==
    [soDate |-> IF entry.soDate # NoDate THEN Num(ISODay(entry.soDate))
                ELSE Blank,
     dispatchFrom |-> OrEmpty(entry.dispatchFrom),
     dispatchDate |-> IF entry.dispatchDate # NoDate
                      THEN Num(ISODay(entry.dispatchDate)) ELSE Blank,
     customerEmail |-> OrEmpty(entry.customerEmail),
     customername |-> OrEmpty(entry.customername),
     productType |-> OrEmpty(product.productType),
     qty |-> Num(product.qty),
     unitPrice |-> Num(product.unitPrice),
     modelNos |-> product.modelNos,
     gst |-> IF Truthy(product.gst) THEN product.gst ELSE "0",
     brand |-> OrEmpty(product.brand),
     total |-> IF index = 0 THEN Num(entry.total) ELSE Blank,
     paymentCollected |-> IF index = 0 /\ entry.paymentCollected # EmptyString
                          THEN Num(NumberOfString(entry.paymentCollected))
                          ELSE Blank,
     paymentDue |-> IF index = 0 /\ entry.paymentDue # EmptyString
                    THEN Num(NumberOfString(entry.paymentDue)) ELSE Blank,
     freightcs |-> IF index = 0 /\ TruthyNum(entry.freightcs)
                   THEN entry.freightcs ELSE Blank,
     installation |-> IF index = 0 /\ TruthyNum(entry.installation)
                      THEN entry.installation ELSE Blank,
     orderType |-> IF index # 0 THEN ""
                   ELSE IF Truthy(entry.orderType) THEN entry.orderType
                   ELSE "Private",
     fulfillingStatus |-> IF index # 0 THEN ""
                          ELSE IF Truthy(entry.fulfillingStatus)
                          THEN entry.fulfillingStatus ELSE "Pending",
     dispatchStatus |-> IF index # 0 THEN ""
                        ELSE IF Truthy(entry.dispatchStatus)
                        THEN entry.dispatchStatus ELSE "Not Dispatched",
     sostatus |-> IF index # 0 THEN ""
                  ELSE IF Truthy(entry.sostatus) THEN entry.sostatus
                  ELSE "Pending for Approval",
     remarks |-> IF index # 0 THEN "" ELSE OrEmpty(entry.remarks)]

\* the product exported for an order that has no products
NotFoundProduct ==
    [productType |-> "Not Found", qty |-> 0, unitPrice |-> 0, modelNos |-> <<>>,
     gst |-> "", brand |-> ""]

\* the products flatMap expands an order into
exportProducts(entry) ==
    IF Len(entry.products) > 0 THEN entry.products ELSE <<NotFoundProduct>>

\* formattedEntries in which every row is built as the first row of its order
formattedEntries_EveryRowFirst(entry) ==
    [i \in 1..Len(exportProducts(entry)) |->
        exportRow(entry, exportProducts(entry)[i], 0)]

\* formattedEntries of one order: a row for each of its products
formattedEntries(entry) ==
    [i \in 1..Len(exportProducts(entry)) |->
        exportRow(entry, exportProducts(entry)[i], i - 1)]

\* the orders exportentry writes to the sheet
exportentry(req) ==
    /\ req.op = "exportentry"
    /\ IF req.db.order # "ok"
       THEN Reply(req, Response(500, "Error exporting orders", "", 0))
       ELSE Reply(req, Listing(IF req.user.role = "Admin" THEN DOMAIN orders
                               ELSE IF req.user.role = "Sales"
                               THEN scopedOrders(req.user.id)
                               ELSE DOMAIN orders))

WorkflowQueries ==
    {"getFinishedGoodsOrders", "getVerificationOrders", "getBillOrders",
     "getInstallationOrders", "getAccountsOrders",
     "getProductionApprovalOrders", "getProductionOrders"}

\* the filter of each workflow query; a field the order does not carry reads
\* as undefined
workflowQuery(name) ==
    {id \in DOMAIN orders :
        LET o == orders[id]
            notCancelled == o.dispatchStatus # "Order Cancelled"
        IN
        CASE name = "getFinishedGoodsOrders" ->
                /\ o.fulfillingStatus \in {"Fulfilled", "Partial Dispatch"}
                /\ notCancelled
                /\ Str(o, "stamp") # "Received"
          [] name = "getVerificationOrders" ->
                /\ Str(o, "paymentTerms") \in {"100% Advance", "Partial Advance"}
                /\ o.sostatus \notin {"Accounts Approved", "Approved",
                                      "Order on Hold Due to Low Price"}
                /\ notCancelled
          [] name = "getBillOrders" ->
                /\ o.sostatus = "Approved"
                /\ Str(o, "billStatus") # "Billing Complete"
                /\ notCancelled
          [] name = "getInstallationOrders" ->
                /\ o.dispatchStatus = "Delivered"
                /\ Str(o, "installchargesstatus") # "Not in Scope"
                /\ o.installationStatus # "Completed"
          [] name = "getAccountsOrders" ->
                /\ Str(o, "paymentReceived") # "Received"
                /\ notCancelled
                /\ \/ o.installationStatus = "Completed"
                   \/ Str(o, "installchargesstatus") = "Not in Scope"
          [] name = "getProductionApprovalOrders" ->
                /\ \/ o.sostatus = "Accounts Approved"
                   \/ o.sostatus = "Pending for Approval"
                      /\ Str(o, "paymentTerms") = "Credit"
                   \/ Str(o, "stockStatus") = "Partial Stock"
                      /\ o.sostatus = "Approved"
                /\ notCancelled
          [] name = "getProductionOrders" ->
                /\ o.sostatus = "Approved"
                /\ o.dispatchFrom \notin dispatchFromOptions
                /\ o.fulfillingStatus # "Fulfilled"
                /\ notCancelled}

\* a workflow query: req.op names it
getWorkflowOrders(req) ==
    /\ req.op \in WorkflowQueries
    /\ IF req.db.order # "ok"
       THEN Reply(req, Response(500, "", "find", 0))
       ELSE Reply(req, Listing(workflowQuery(req.op)))

\* io.emit: every connected socket
Broadcast == [kind |-> "all", id |-> 0]

\* the target user is written, nothing else
teamSaved(req, leader, action) ==
    /\ users' = [users EXCEPT ![req.userId].assignedToLeader = leader]
    /\ emitted' = <<[name |-> "teamUpdate", rooms |-> {Broadcast},
                     order |-> 0, userId |-> req.userId,
                     leaderId |-> req.user.id, action |-> action]>>
    /\ UNCHANGED <<orders, notifications, nextId>>

TeamWritten(req, leader, action) ==
    /\ teamSaved(req, leader, action)
    /\ Answered(req)

\* req.userId is the user to assign to the caller's team
assignUser(req) ==
    /\ req.op = "assignUser"
    /\ IF req.userId \notin DOMAIN users
       THEN Reply(req, Response(404, "User not found", "", 0))
       ELSE IF users[req.userId].assignedToLeader # 0
       THEN Reply(req, Response(400, "User already assigned to a team", "", 0))
       ELSE IF req.userId = req.user.id
       THEN Reply(req, Response(400, "Cannot assign yourself", "", 0))
       ELSE /\ TeamWritten(req, req.user.id, "assign")
            /\ response' = Response(200, "User assigned successfully", "", 0)

unassignUser(req) ==
    /\ req.op = "unassignUser"
    /\ IF req.userId \notin DOMAIN users
       THEN Reply(req, Response(404, "User not found", "", 0))
       ELSE IF users[req.userId].assignedToLeader # req.user.id
       THEN Reply(req, Response(403, "You are not the leader of this user", "", 0))
       ELSE /\ TeamWritten(req, 0, "unassign")
            /\ response' = Response(200, "User unassigned successfully", "", 0)

----------------------------------------------------------------------------
(* Sockets and the change stream *)

LeaderRoom(id) == [kind |-> "leader", id |-> id]

\* the rooms the join handler puts the socket in; data.userId = 0 is a join
\* without userId
joinRooms(data) ==
    (IF data.userId # 0 THEN {UserRoom(data.userId)} ELSE {})
    \cup (IF /\ data.userId \in DOMAIN users
              /\ users[data.userId].assignedToLeader # 0
           THEN {LeaderRoom(users[data.userId].assignedToLeader)} ELSE {})
    \cup (IF data.role = "Admin" THEN {AdminsRoom} ELSE {})

\* a step of a socket or of the change stream: no request is answered and no
\* collection is written
Callback(step) ==
    /\ lastReq' = step
    /\ now' = now + 1
    /\ response' = NoResponse
    /\ UNCHANGED <<orders, notifications, nextId, users, inflight>>

\* io.on("connection")
connection ==
    /\ sockets' = Append(sockets, {})
    /\ emitted' = <<>>
    /\ UNCHANGED changeStream
    /\ Callback([op |-> "connection", socket |-> Len(sockets) + 1])

\* socket.on("join")
join(socket, data) ==
    /\ socket \in DOMAIN sockets
    /\ sockets' = [sockets EXCEPT ![socket] = @ \cup joinRooms(data)]
    /\ emitted' = <<>>
    /\ UNCHANGED changeStream
    /\ Callback([op |-> "join", socket |-> socket, data |-> data])

\* the sockets an event published to rooms reaches
Receivers(rooms) ==
    {socket \in DOMAIN sockets :
        Broadcast \in rooms \/ sockets[socket] \cap rooms # {}}

\* for (const room of targetRooms) io.to(room).emit(name, payload)
RECURSIVE roomEvents(_, _, _)
roomEvents(name, rooms, payload) ==
    IF rooms = {} THEN <<>>
    ELSE LET r == CHOOSE x \in rooms : TRUE IN
         <<[name |-> name, rooms |-> {r}, order |-> payload.documentId,
            operationType |-> payload.operationType,
            fullDocument |-> payload.fullDocument]>>
         \o roomEvents(name, rooms \ {r}, payload)

\* change.fullDocument: the inserted document, the document an update is
\* looked up to when the event is delivered, nothing for a delete
fullDocument(change) ==
    IF change.operationType = "update"
    THEN IF change.documentKey \in DOMAIN orders
         THEN <<orders[change.documentKey]>> ELSE <<>>
    ELSE change.fullDocument

\* changeStream.on("change")
onChange ==
    /\ changeStream.changes # <<>>
    /\ LET change == Head(changeStream.changes)
           fullDoc == fullDocument(change)
       IN
       /\ emitted' =
            IF fullDoc # <<>> /\ fullDoc[1].createdBy # 0
            THEN roomEvents("orderUpdate", targetRooms(fullDoc[1]),
                            [operationType |-> change.operationType,
                             documentId |-> change.documentKey,
                             fullDocument |-> fullDoc[1]])
            ELSE <<>>
       /\ changeStream' = [changeStream EXCEPT !.changes = Tail(@)]
       /\ UNCHANGED sockets
       /\ Callback([op |-> "change", operationType |-> change.operationType,
                    id |-> change.documentKey])

----------------------------------------------------------------------------
(* Requests *)

DbOk == [order |-> "ok", notification |-> "ok"]
Sales1 == [id |-> 1, role |-> "Sales", username |-> "asha"]

\* a product every check accepts
GoodProduct ==
    [productType |-> "Monitor", qty |-> Num(2), unitPrice |-> Num(100),
     gst |-> "18", warranty |-> "2 Years", brand |-> "Acme"]

GoodBody ==
    [products |-> [form |-> "list", items |-> <<GoodProduct>>],
     orderType |-> "B2C", paymentTerms |-> "Advance", customername |-> "Kiran"]

CreateReq(body, db) ==
    [op |-> "createOrder", user |-> Sales1, body |-> body, db |-> db]

\* Products that differ in quantity, price and gst
NumericProducts ==
    {With(GoodProduct, [qty |-> q, unitPrice |-> u, gst |-> g]) :
        q \in {Num(-1), Num(0), Num(1), Num(2), Text},
        u \in {Num(-5), Num(0), Num(50), Num(100)},
        g \in {"18", "including", "abc"}}
    \cup {Without(GoodProduct, k) : k \in {"qty", "unitPrice", "gst"}}

\* Products that differ in type, brand, warranty and model numbers
DescribedProducts ==
    {With(Only(GoodProduct, {"qty", "unitPrice", "gst"} \cup keys),
          Only([productType |-> t, brand |-> b, warranty |-> "2 Years",
                modelNos |-> m], keys)) :
        t \in {"IFPD", "Monitor"},
        b \in {"Promark", "Acme"},
        m \in {[csv |-> TRUE, items |-> <<"M1", "M2">>],
               [csv |-> TRUE, items |-> <<>>],
               [csv |-> FALSE, items |-> <<>>]},
        keys \in SUBSET {"productType", "brand", "warranty", "modelNos"}}

\* the two products of the worked example: 2 x 100 at 18% and 1 x 50 including
ExampleProducts ==
    <<[productType |-> "Monitor", qty |-> Num(2), unitPrice |-> Num(100),
       gst |-> "18", warranty |-> "1 Year"],
      [productType |-> "Mouse", qty |-> Num(1), unitPrice |-> Num(50),
       gst |-> "including", warranty |-> "1 Year"]>>

PairProducts ==
    {GoodProduct, ExampleProducts[2],
     With(GoodProduct, [qty |-> Num(0)]), With(GoodProduct, [qty |-> Num(-1)]),
     With(GoodProduct, [unitPrice |-> Num(-5)]), Without(GoodProduct, "warranty")}

List(items) == [form |-> "list", items |-> items]
BadJson == [form |-> "badjson", items |-> <<>>]

\* bodies that differ in the products
ProductBodies ==
    {With(GoodBody, [products |-> List(<<p>>)]) : p \in NumericProducts}
    \cup {With(GoodBody, [products |-> List(<<p>>), orderType |-> t,
                          gemOrderNumber |-> "GEM-1"]) :
            p \in DescribedProducts, t \in {"B2C", "B2G"}}
    \cup {With(GoodBody, [products |-> [form |-> "json", items |-> <<p, q>>]]) :
            p \in PairProducts, q \in PairProducts}
    \cup {With(GoodBody, [products |-> l]) : l \in {List(<<>>), BadJson}}
    \cup {Without(GoodBody, "products")}

\* bodies that differ in the order type and the fields it requires
TypeBodies ==
    {With(Only(GoodBody, {"customername"} \cup keys),
          Only([products |-> p, orderType |-> t, gemOrderNumber |-> "GEM-1",
                demoDate |-> "2026-01-05", paymentTerms |-> "Advance"], keys)) :
        p \in {GoodBody.products, BadJson},
        t \in {"B2C", "B2G", "Demo"},
        keys \in {{"products"} \cup ks :
                    ks \in SUBSET {"orderType", "gemOrderNumber", "demoDate",
                                   "paymentTerms"}}}

\* bodies that differ in the order type, the origin and the fulfilling status
OriginBodies ==
    {With(GoodBody,
          Only([orderType |-> t, demoDate |-> "2026-01-05",
                gemOrderNumber |-> "GEM-1", dispatchFrom |-> d,
                fulfillingStatus |-> f],
               {"orderType", "demoDate", "gemOrderNumber"} \cup keys)) :
        t \in {"B2C", "B2G", "Demo"},
        d \in {"Morinda", "Delhi", "Mars", ""},
        f \in {"Pending", ""},
        keys \in SUBSET {"dispatchFrom", "fulfillingStatus"}}

\* bodies that differ in the amounts
MoneyBodies ==
    {With(GoodBody,
          Only([products |-> List(l), total |-> t, paymentDue |-> d,
                paymentCollected |-> Num(100), freightcs |-> Num(20),
                installation |-> i], {"products"} \cup keys)) :
        l \in {<<GoodProduct>>, ExampleProducts},
        t \in {Num(500), Blank, Text},
        d \in {Num(40)},
        i \in {Num(10), Num(0)},
        keys \in SUBSET {"total", "paymentDue", "paymentCollected", "freightcs",
                         "installation"}}

DbOutcomes ==
    {[order |-> o, notification |-> n] :
        o \in {"ok", "validation", "error"}, n \in {"ok", "error"}}

CreateReqs ==
    {CreateReq(b, DbOk) :
        b \in ProductBodies \cup TypeBodies \cup OriginBodies \cup MoneyBodies}
    \cup {CreateReq(GoodBody, db) : db \in DbOutcomes}

----------------------------------------------------------------------------
(* Specifications *)

\* the users of the model; none is in a team at first
UserRoles == <<"Sales", "Sales", "Admin", "Sales", "SuperAdmin">>
NoTeams ==
    [id \in 1..Len(UserRoles) |->
        [role |-> UserRoles[id], assignedToLeader |-> 0]]

\* the change stream of a deployment where Order.watch() fails (a store that
\* is no replica set): the error is logged and no change event arrives
NotWatching == [watching |-> FALSE, changes |-> <<>>]
\* the change stream once Order.watch() is open
Watching == [watching |-> TRUE, changes |-> <<>>]

Init ==
    /\ orders = <<>>
    /\ notifications = <<>>
    /\ emitted = <<>>
    /\ response = NoResponse
    /\ lastReq = NoRequest
    /\ nextId = 1
    /\ users = NoTeams
    /\ now = 1
    /\ changeStream = NotWatching
    /\ sockets = <<>>
    /\ inflight = <<>>

\* createOrder alone, over requests that exercise every check and derivation
CreateOnly ==
    /\ now <= MaxCreateOps
    /\ \E req \in CreateReqs : createOrder(req)

SpecCreate == Init /\ [][CreateOnly]_vars

Sales2 == [id |-> 2, role |-> "Sales", username |-> "bela"]
Admin == [id |-> 3, role |-> "Admin", username |-> "chand"]
Sales3 == [id |-> 4, role |-> "Sales", username |-> "devi"]
SuperAdmin == [id |-> 5, role |-> "SuperAdmin", username |-> "esha"]

\* the orders the edit behaviours start from: one per origin
SeedReqs ==
    {CreateReq(With(GoodBody, b), DbOk) :
        b \in {[dispatchFrom |-> "Morinda"],
               [dispatchFrom |-> "Delhi", customerEmail |-> "k@example.com"],
               [customerEmail |-> "k@example.com"]}}

EditReq(user, id, body, nulls, db) ==
    [op |-> "editEntry", user |-> user, id |-> id, body |-> body,
     nulls |-> nulls, db |-> db]

\* payloads about the origin and the fulfilment
FulfillmentBodies ==
    {Only([dispatchFrom |-> d, fulfillingStatus |-> f, completionStatus |-> c],
          keys) :
        d \in {"Morinda", "Delhi", "Patna", ""},
        f \in {"Fulfilled", "Pending"},
        c \in {"Complete", "In Progress"},
        keys \in SUBSET {"dispatchFrom", "fulfillingStatus", "completionStatus"}}
    \cup {[dispatchFrom |-> d, fulfillmentDate |-> Num(50)] :
            d \in {"Morinda", "Delhi"}}
    \cup {[fulfillingStatus |-> "Fulfilled", fulfillmentDate |-> Num(50)]}

\* payloads about the approval and the dispatch
WorkflowBodies ==
    {[sostatus |-> "Approved"], [dispatchStatus |-> "Dispatched"],
     [dispatchStatus |-> "Delivered"],
     [dispatchStatus |-> "Delivered", dispatchDate |-> Num(60)],
     [dispatchStatus |-> "Dispatched", dispatchDate |-> Blank],
     [sostatus |-> "Approved", dispatchStatus |-> "Delivered"]}

EditReqs ==
    {EditReq(Sales1, 1, b, {}, DbOk) : b \in FulfillmentBodies \cup WorkflowBodies}
    \cup {EditReq(Sales1, 1, [dispatchFrom |-> d], {"fulfillingStatus"}, DbOk) :
            d \in {"Morinda", "Delhi"}}
    \cup {EditReq(Sales2, id, [dispatchFrom |-> "Morinda",
                               fulfillingStatus |-> "Fulfilled"], {}, DbOk) :
            id \in {MalformedId, 2}}
    \cup {EditReq(Sales2, 1, [dispatchFrom |-> d, fulfillingStatus |-> "Pending"],
                   {}, db) :
            d \in {"Morinda", "Delhi"}, db \in DbOutcomes}

\* an order is created
EditCreate ==
    /\ now <= MaxEditOps
    /\ \E req \in SeedReqs : createOrder(req)

\* and edited
EditEdit ==
    /\ now <= MaxEditOps
    /\ \E req \in EditReqs : editEntry(req)

SpecEdit == Init /\ [][EditCreate \/ EditEdit]_vars

\* the order the workflow behaviours start from
WorkflowSeedReqs ==
    {CreateReq(With(GoodBody, [dispatchFrom |-> d,
                               customerEmail |-> "k@example.com"]), DbOk) :
        d \in {"Delhi", "Morinda"}}

\* payloads that walk an order through fulfilment, approval and dispatch
StepBodies ==
    {[fulfillingStatus |-> "Fulfilled"],
     [fulfillingStatus |-> "Fulfilled", completionStatus |-> "In Progress"],
     [fulfillingStatus |-> "Fulfilled", fulfillmentDate |-> Num(50)],
     [fulfillingStatus |-> "Pending"],
     [dispatchFrom |-> "Patna"],
     [dispatchFrom |-> "Delhi", fulfillingStatus |-> "Fulfilled"],
     [sostatus |-> "Approved"],
     [sostatus |-> "Pending for Approval"],
     [dispatchStatus |-> "Dispatched"],
     [dispatchStatus |-> "Delivered"],
     [dispatchStatus |-> "Delivered", dispatchDate |-> Num(60)],
     [dispatchStatus |-> "Dispatched", dispatchDate |-> Blank],
     [dispatchStatus |-> "Not Dispatched"],
     [receiptDate |-> Num(70)],
     [products |-> List(<<GoodProduct>>)],
     [products |-> List(<<With(GoodProduct, [qty |-> Num(3)])>>)]}

\* payloads with keys outside allowedFields, and dates that do not parse
FrameBodies ==
    {[remarks |-> "call first", createdBy |-> 2, _id |-> 9, assignedTo |-> 2,
      approvalTimestamp |-> 80],
     [customername |-> "", soDate |-> Text, dispatchDate |-> Blank],
     [soDate |-> Num(5), fulfillmentDate |-> Text]}

WorkflowReqs ==
    {EditReq(Sales1, 1, b, {}, DbOk) : b \in StepBodies \cup FrameBodies}
    \cup {EditReq(Sales2, 1, [dispatchStatus |-> "Delivered"], {"dispatchDate"},
                  DbOk),
          EditReq(Sales2, 1, [sostatus |-> "Approved"],
                  {"remarks", "fulfillingStatus", "receiptDate"}, DbOk),
          EditReq(Sales2, 1, [sostatus |-> "Approved"], {},
                  [order |-> "error", notification |-> "ok"]),
          EditReq(Sales2, 2, [sostatus |-> "Approved"], {}, DbOk)}

WorkflowCreate ==
    /\ now <= MaxWorkflowOps
    /\ orders = <<>>
    /\ \E req \in WorkflowSeedReqs : createOrder(req)

WorkflowEdit ==
    /\ now <= MaxWorkflowOps
    /\ \E req \in WorkflowReqs : editEntry(req)

\* one order is created and then edited through its workflow
SpecWorkflow == Init /\ [][WorkflowCreate \/ WorkflowEdit]_vars

\* product lists sent to editEntry
EditedProducts ==
    {With(Only(GoodProduct, {"productType", "brand"} \cup keys),
          Only([qty |-> q, unitPrice |-> u, gst |-> g, warranty |-> "2 Years",
                serialNos |-> <<>>, modelNos |-> <<>>],
               keys \cup {"serialNos", "modelNos"})) :
        q \in {Num(-1), Num(0), Num(3)},
        u \in {Num(-5), Num(100), Text},
        g \in {"18", "abc"},
        keys \in {{"qty", "unitPrice", "gst", "warranty"}, {"qty", "unitPrice"}}}
    \cup {GoodProduct, Without(GoodProduct, "productType")}

ProductEditBodies ==
    {[products |-> List(<<p>>)] : p \in EditedProducts}
    \cup {[products |-> List(<<GoodProduct, p>>)] :
            p \in {GoodProduct, ExampleProducts[2]}}
    \cup {[products |-> List(<<>>)], [products |-> [form |-> "text", items |-> <<>>]],
          [freightcs |-> Num(20)], [paymentCollected |-> Num(100)],
          [installation |-> Num(10), remarks |-> "call first"]}

ProductEditReqs ==
    {EditReq(u, 1, b, {}, DbOk) : u \in {Sales1}, b \in ProductEditBodies}
    \cup {EditReq(Sales2, 2, [remarks |-> "urgent"], {"products"}, db) :
            db \in DbOutcomes}

DeleteReq(user, id, db) ==
    [op |-> "DeleteData", user |-> user, id |-> id, db |-> db]

DeleteReqs ==
    {DeleteReq(u, id, DbOk) :
        u \in {Sales1, Sales2, Admin}, id \in {MalformedId, 1, 2}}
    \cup {DeleteReq(Sales1, 1, db) : db \in DbOutcomes}

\* orders created by different users
AccessSeedReqs ==
    {[op |-> "createOrder", user |-> u,
      body |-> With(GoodBody, [dispatchFrom |-> "Delhi"]), db |-> DbOk] :
        u \in {Sales1, Sales2, Admin}}

TeamReq(op, user, userId) == [op |-> op, user |-> user, userId |-> userId]

\* requests that build and dissolve teams; user 9 does not exist
TeamReqs ==
    {TeamReq("assignUser", Sales1, t) : t \in {1, 2, 9}}
    \cup {TeamReq("assignUser", Sales2, 4), TeamReq("assignUser", Sales3, 2)}
    \cup {TeamReq("unassignUser", u, t) : u \in {Sales1, Sales3}, t \in {2, 9}}

AccessDeleteReqs ==
    {DeleteReq(u, id, DbOk) :
        u \in {Sales1, Sales2, Sales3, Admin, SuperAdmin}, id \in {1, 2}}
    \cup {DeleteReq(Sales1, MalformedId, DbOk),
          DeleteReq(Sales1, 1, [order |-> "error", notification |-> "ok"]),
          DeleteReq(Sales1, 1, [order |-> "ok", notification |-> "error"])}

AccessEditReqs ==
    {EditReq(u, id, [remarks |-> "urgent"], {}, DbOk) :
        u \in {Sales1, Sales3, Admin}, id \in {1, 2}}

AccessCreate ==
    /\ now <= MaxAccessOps
    /\ \E req \in AccessSeedReqs : createOrder(req)
AccessAssign ==
    /\ now <= MaxAccessOps
    /\ \E req \in TeamReqs : assignUser(req)
AccessUnassign ==
    /\ now <= MaxAccessOps
    /\ \E req \in TeamReqs : unassignUser(req)
AccessDelete ==
    /\ now <= MaxAccessOps
    /\ \E req \in AccessDeleteReqs : DeleteData(req)
AccessEdit ==
    /\ now <= MaxAccessOps
    /\ \E req \in AccessEditReqs : editEntry(req)

\* users create orders, form teams, and delete and edit each other's orders
SpecAccess ==
    Init /\ [][AccessCreate \/ AccessAssign \/ AccessUnassign \/ AccessDelete
               \/ AccessEdit]_vars

\* team structures that assignUser builds: none, user 2 under user 1, and
\* user 4 under user 2 under user 1
ReadTeams ==
    {NoTeams,
     [NoTeams EXCEPT ![2].assignedToLeader = 1],
     [NoTeams EXCEPT ![2].assignedToLeader = 1, ![4].assignedToLeader = 2]}

ReadSeedReqs ==
    {[op |-> "createOrder", user |-> u,
      body |-> With(GoodBody, [dispatchFrom |-> "Delhi"]), db |-> DbOk] :
        u \in {Sales1, Sales2, Sales3}}
    \cup {[op |-> "createOrder", user |-> Sales2,
           body |-> With(GoodBody, [dispatchFrom |-> "Morinda"]), db |-> DbOk]}

\* edits that move an order to the states the queries filter on
ReadEditReqs ==
    {EditReq(Admin, id, b, {}, DbOk) :
        id \in {1, 2},
        b \in {[dispatchStatus |-> "Order Cancelled"],
               [dispatchStatus |-> "Delivered", installationStatus |-> "Pending"],
               [sostatus |-> "Approved"]}}
    \cup {EditReq(Admin, 1, b, {}, DbOk) :
            b \in {[installationStatus |-> "Completed"],
                   [installchargesstatus |-> "Not in Scope",
                    sostatus |-> "Approved"],
                   [paymentReceived |-> "Received",
                    installationStatus |-> "Completed"]}}

ReadReq(op, user, db) == [op |-> op, user |-> user, db |-> db]

ReadReqs ==
    {ReadReq(op, u, DbOk) :
        op \in {"getAllOrders", "getDashboardCounts"},
        u \in {Sales1, Sales2, Sales3, Admin, SuperAdmin}}
    \cup {ReadReq("exportentry", u, DbOk) :
            u \in {Sales1, Sales3, Admin, SuperAdmin}}
    \cup {ReadReq(op, Sales3, DbOk) : op \in WorkflowQueries}
    \cup {ReadReq(op, Sales1, [order |-> "error", notification |-> "ok"]) :
            op \in {"getAllOrders", "getDashboardCounts", "exportentry",
                    "getBillOrders"}}

InitRead ==
    /\ orders = <<>>
    /\ notifications = <<>>
    /\ emitted = <<>>
    /\ response = NoResponse
    /\ lastReq = NoRequest
    /\ nextId = 1
    /\ users \in ReadTeams
    /\ now = 1
    /\ changeStream = NotWatching
    /\ sockets = <<>>
    /\ inflight = <<>>

ReadCreate ==
    /\ now <= MaxReadOps
    /\ \E req \in ReadSeedReqs : createOrder(req)
ReadEdit ==
    /\ now <= MaxReadOps
    /\ \E req \in ReadEditReqs : editEntry(req)
ReadAll ==
    /\ now <= MaxReadOps
    /\ \E req \in ReadReqs : getAllOrders(req)
ReadCounts ==
    /\ now <= MaxReadOps
    /\ \E req \in ReadReqs : getDashboardCounts(req)
ReadExport ==
    /\ now <= MaxReadOps
    /\ \E req \in ReadReqs : exportentry(req)
ReadWorkflow ==
    /\ now <= MaxReadOps
    /\ \E req \in ReadReqs : getWorkflowOrders(req)

\* orders are created and edited, and read by users in and out of teams
SpecRead ==
    InitRead /\ [][ReadCreate \/ ReadEdit \/ ReadAll \/ ReadCounts
                   \/ ReadExport \/ ReadWorkflow]_vars

BulkRow ==
    [c \in {"Product Type", "GST", "Brand", "Customer Name", "Dispatch From"} |->
        CASE c = "Product Type" -> "Monitor"
          [] c = "GST" -> "18"
          [] c = "Brand" -> "Acme"
          [] c = "Customer Name" -> "Kiran"
          [] OTHER -> "Delhi"]
    @@ [c \in {"Quantity", "Unit Price"} |->
            IF c = "Quantity" THEN Num(2) ELSE Num(100)]

BulkRows ==
    {With(BulkRow, ("Quantity" :> q) @@ ("Unit Price" :> u)) :
        q \in {Num(-1), Num(0), Num(1)}, u \in {Num(-5), Num(0), Num(50), Text}}
    \cup {With(BulkRow, "GST" :> g) : g \in {"including", "abc", ""}}
    \cup {With(BulkRow, "Dispatch From" :> d) : d \in {"Morinda", "Mars"}}
    \cup {With(BulkRow, "Product Type" :> t) : t \in {"IFPD", ""}}
    \cup {With(BulkRow, ("Freight Charges" :> Num(20))
                        @@ ("Payment Collected" :> Num(100))),
          Without(BulkRow, "Brand")}

BulkReqs ==
    {[op |-> "bulkUploadOrders", user |-> Sales1, file |-> TRUE, rows |-> <<r>>,
      db |-> DbOk] : r \in BulkRows}
    \cup {[op |-> "bulkUploadOrders", user |-> Sales2, file |-> TRUE,
           rows |-> <<BulkRow, r>>, db |-> DbOk] :
            r \in {BulkRow, With(BulkRow, "Quantity" :> Num(0))}}
    \cup {[op |-> "bulkUploadOrders", user |-> Sales2, file |-> f,
           rows |-> <<BulkRow>>, db |-> db] :
            f \in BOOLEAN,
            db \in {[order |-> o, notification |-> "ok"] :
                        o \in {"ok", "validation", "error"}}}

\* the steps of the order specifications
Create ==
    /\ now <= MaxOps
    /\ \E req \in SeedReqs : createOrder(req)
Edit ==
    /\ now <= MaxOps
    /\ \E req \in ProductEditReqs : editEntry(req)
Delete ==
    /\ now <= MaxOps
    /\ \E req \in DeleteReqs : DeleteData(req)
Bulk ==
    /\ now <= MaxOps
    /\ \E req \in BulkReqs : bulkUploadOrders(req)

\* orders are created, their products and amounts edited, and deleted
SpecOrders == Init /\ [][Create \/ Edit \/ Delete]_vars

\* every way an order is written: created, imported, edited, deleted
Next == Create \/ Edit \/ Bulk \/ Delete

Spec == Init /\ [][Next]_vars

-----------------------------------------------------------------------------
(* Handlers that run concurrently: a handler gives way to other requests at
   each await, so between the findById that reads its document and the call
   that writes it any other request may run. What a handler does after its
   write uses only what the write returned. *)

\* the handler of req has read doc and waits for its next call to the store
Pending(req, doc) ==
    /\ inflight' = Append(inflight, [req |-> req, doc |-> doc, readAt |-> now])
    /\ lastReq' = [op |-> "findById", handler |-> req.op]
    /\ now' = now + 1
    /\ response' = NoResponse
    /\ emitted' = <<>>
    /\ UNCHANGED <<orders, notifications, nextId, users, changeStream, sockets>>

Remove(s, i) == SubSeq(s, 1, i - 1) \o SubSeq(s, i + 1, Len(s))

\* the handler of inflight[i] runs on to its answer
Resumed(i) ==
    /\ inflight' = Remove(inflight, i)
    /\ Served(With(inflight[i].req, [readAt |-> inflight[i].readAt]))

\* the handler answers r and writes nothing
Failed(r) ==
    /\ response' = r
    /\ emitted' = <<>>
    /\ UNCHANGED <<orders, notifications, nextId>>

\* the document findByIdAndUpdate applies $set to: the one the handler read
storedAtUpdate_ReadCopy(p) == p.doc

\* the document findByIdAndUpdate applies $set to: the stored one
storedAtUpdate(p) == orders[p.req.id]

\* editEntry up to the call of findByIdAndUpdate
editFind(req) ==
    /\ req.op = "editEntry"
    /\ IF \/ req.id = MalformedId
          \/ req.id \notin DOMAIN orders
          \/ editProductsRejection(req).status # 0
       THEN editEntry(req)
       ELSE Pending(req, orders[req.id])

\* editEntry from findByIdAndUpdate on, without the check that the update
\* returned a document
editUpdate_NoNullCheck(i) ==
    LET req == inflight[i].req IN
    /\ req.op = "editEntry"
    /\ IF req.id \in DOMAIN orders
       THEN editStore(req, inflight[i].doc, orders[req.id])
       ELSE /\ response' = Response(200, "", "", req.id)
            /\ emitted' = <<Event("notification",
                                  editNotifRooms(inflight[i].doc), req.id)>>
            /\ notifications' = Append(notifications,
                    Notification("Order updated", req, inflight[i].doc))
            /\ UNCHANGED <<orders, nextId>>
    /\ Resumed(i)
    /\ UNCHANGED users

\* editEntry from findByIdAndUpdate to its answer
editUpdate(i) ==
    LET req == inflight[i].req
        existingOrder == inflight[i].doc
    IN
    /\ req.op = "editEntry"
    /\ IF castFails(req, existingOrder) \/ req.db.order # "ok"
       THEN Failed(Response(500, "Server error", "update", 0))
       ELSE IF req.id \notin DOMAIN orders
       THEN Failed(Response(404, "Order not found", "", 0))
       ELSE editStore(req, existingOrder, storedAtUpdate(inflight[i]))
    /\ Resumed(i)
    /\ UNCHANGED users

\* DeleteData up to the call of findByIdAndDelete
deleteFind(req) ==
    /\ req.op = "DeleteData"
    /\ IF \/ req.id = MalformedId
          \/ req.id \notin DOMAIN orders
          \/ foreignDelete(req.user, orders[req.id])
       THEN DeleteData(req)
       ELSE Pending(req, orders[req.id])

\* DeleteData from findByIdAndDelete to its answer; what findByIdAndDelete
\* returns is not read
deleteRemove(i) ==
    LET req == inflight[i].req IN
    /\ req.op = "DeleteData"
    /\ IF req.db.order # "ok"
       THEN Failed(Response(500, "Failed to delete order", "delete", 0))
       ELSE deleteStore(req, inflight[i].doc)
    /\ Resumed(i)
    /\ UNCHANGED users

\* assignUser up to targetUser.save()
assignFind(req) ==
    /\ req.op = "assignUser"
    /\ IF \/ req.userId \notin DOMAIN users
          \/ users[req.userId].assignedToLeader # 0
          \/ req.userId = req.user.id
       THEN assignUser(req)
       ELSE Pending(req, users[req.userId])

\* assignUser from targetUser.save() to its answer: save() sets the modified
\* path of the document, whatever the store holds by then
assignSave(i) ==
    LET req == inflight[i].req IN
    /\ req.op = "assignUser"
    /\ teamSaved(req, req.user.id, "assign")
    /\ response' = Response(200, "User assigned successfully", "", 0)
    /\ Resumed(i)

\* edits of plain fields, two of them of the same field, and approvals
ConcEditReqs ==
    {EditReq(Sales1, 1, [remarks |-> "urgent"], {}, DbOk),
     EditReq(Admin, 1, [customername |-> "Kiran Rao"], {}, DbOk),
     EditReq(Admin, 1, [remarks |-> "hold"], {}, DbOk),
     EditReq(Sales1, 1, [sostatus |-> "Approved"], {}, DbOk),
     EditReq(Admin, 1, [sostatus |-> "Approved"], {}, DbOk)}

ConcSeedReq ==
    CreateReq(With(GoodBody, [dispatchFrom |-> "Delhi",
                              customerEmail |-> "k@example.com"]), DbOk)

ConcCreate ==
    /\ now <= MaxConcurrentOps
    /\ orders = <<>> /\ nextId = 1
    /\ createOrder(ConcSeedReq)
ConcEditFind ==
    /\ now <= MaxConcurrentOps
    /\ Len(inflight) < MaxInflight
    /\ \E req \in ConcEditReqs : editFind(req)
ConcEditUpdate ==
    /\ now <= MaxConcurrentOps
    /\ \E i \in DOMAIN inflight : editUpdate(i)
ConcDeleteFind ==
    /\ now <= MaxConcurrentOps
    /\ Len(inflight) < MaxInflight
    /\ \E u \in {Sales1, Sales2, Admin} : deleteFind(DeleteReq(u, 1, DbOk))
ConcDeleteRemove ==
    /\ now <= MaxConcurrentOps
    /\ \E i \in DOMAIN inflight : deleteRemove(i)

\* an order is created; edits and deletes of it run concurrently
SpecConcurrent ==
    Init /\ [][ConcCreate \/ ConcEditFind \/ ConcEditUpdate \/ ConcDeleteFind
                \/ ConcDeleteRemove]_vars

\* assignments by three users, of each other, of themselves and of no user
ConcTeamReqs ==
    {TeamReq(op, u, t) :
        op \in {"assignUser", "unassignUser"},
        u \in {Sales1, Sales2, Sales3}, t \in {1, 2, 4, 9}}

TeamsAssignFind ==
    /\ now <= MaxTeamOps
    /\ Len(inflight) < MaxInflight
    /\ \E req \in ConcTeamReqs : assignFind(req)
TeamsAssignSave ==
    /\ now <= MaxTeamOps
    /\ \E i \in DOMAIN inflight : assignSave(i)
TeamsUnassign ==
    /\ now <= MaxTeamOps
    /\ \E req \in ConcTeamReqs : unassignUser(req)

\* users assign and unassign each other concurrently
SpecTeams ==
    Init /\ [][TeamsAssignFind \/ TeamsAssignSave \/ TeamsUnassign]_vars

\* sheets of one and of two rows, valid and invalid
ImportRows ==
    BulkRows
    \cup {With(BulkRow, r) :
            r \in {[c \in {"Payment Terms"} |-> "Advance"],
                   [c \in {"Payment Terms", "Order Type"} |->
                        IF c = "Order Type" THEN "B2G" ELSE "Advance"]}}

ImportReq(user, rows, db) ==
    [op |-> "bulkUploadOrders", user |-> user, file |-> TRUE, rows |-> rows,
     db |-> db]

ImportReqs ==
    {ImportReq(Sales1, <<r>>, DbOk) : r \in ImportRows}
    \cup {ImportReq(Sales2, <<r1, r2>>, DbOk) :
            r1, r2 \in {BulkRow, With(BulkRow, "Quantity" :> Num(0)),
                        With(BulkRow, "Dispatch From" :> "Mars")}}
    \cup {ImportReq(Sales2, <<BulkRow, BulkRow>>, db) :
            db \in {[order |-> o, notification |-> "ok"] :
                        o \in {"validation", "error"}}}
    \cup {With(ImportReq(Sales2, <<BulkRow>>, DbOk), [io |-> "throws"]),
          [ImportReq(Sales2, <<BulkRow>>, DbOk) EXCEPT !.file = FALSE],
          ImportReq(Sales2, <<>>, DbOk)}

ImportSeedReqs ==
    {CreateReq(With(GoodBody, b), DbOk) :
        b \in {[dispatchFrom |-> "Delhi"],
               [dispatchFrom |-> "Morinda", freightcs |-> Num(20)]}}
    \cup {CreateReq([GoodBody EXCEPT
                        !.products = List(<<GoodProduct, GoodProduct>>)], DbOk)}

ImportCreate ==
    /\ now <= MaxImportOps
    /\ \E req \in ImportSeedReqs : createOrder(req)
ImportBulk ==
    /\ now <= MaxImportOps
    /\ \E req \in ImportReqs : bulkUploadOrders(req)
ImportExport ==
    /\ now <= MaxImportOps
    /\ \E u \in {Sales1, Admin} : exportentry(ReadReq("exportentry", u, DbOk))
\* the sheet exported for a stored order is uploaded again
Reimport ==
    /\ now <= MaxImportOps
    /\ \E id \in DOMAIN orders :
         bulkUploadOrders(With(ImportReq(Admin, formattedEntries(orders[id]),
                                         DbOk),
                               [exported |-> id]))

\* edits that replace the products of an order, by none or by two
ExportEditReqs ==
    {EditReq(Admin, id, b, {}, DbOk) :
        id \in {1, 2},
        b \in {[products |-> List(<<>>)],
               [products |-> List(<<GoodProduct, ExampleProducts[2]>>)],
               [remarks |-> "call first", sostatus |-> "Approved"]}}

ExportCreate ==
    /\ now <= MaxExportOps
    /\ \E req \in ImportSeedReqs : createOrder(req)
ExportEdit ==
    /\ now <= MaxExportOps
    /\ \E req \in ExportEditReqs : editEntry(req)
ExportSheet ==
    /\ now <= MaxExportOps
    /\ \E u \in {Sales1, Admin} : exportentry(ReadReq("exportentry", u, DbOk))

\* orders are created, their products are edited, and they are exported
SpecExport ==
    Init /\ [][ExportCreate \/ ExportEdit \/ ExportSheet]_vars

\* orders are created and imported, exported and imported again
SpecImport ==
    Init /\ [][ImportCreate \/ ImportBulk \/ ImportExport \/ Reimport]_vars

\* the outcomes of the store, of the publish and of the mail for a request
Outcomes ==
    {[db |-> DbOk],
     [db |-> [order |-> "validation", notification |-> "ok"]],
     [db |-> [order |-> "error", notification |-> "ok"]],
     [db |-> [order |-> "ok", notification |-> "error"]],
     [db |-> DbOk, io |-> "throws"],
     [db |-> DbOk, mail |-> "fails"]}

EventSeedReqs ==
    {With(CreateReq(With(GoodBody, [dispatchFrom |-> "Delhi",
                                    customerEmail |-> "k@example.com"]), DbOk),
          o) : o \in Outcomes \ {[db |-> DbOk, mail |-> "fails"]}}

EventEditReqs ==
    {With(EditReq(Admin, 1, [sostatus |-> "Approved"], {}, DbOk), o) :
        o \in Outcomes}
    \cup {EditReq(u, 1, [remarks |-> "urgent"], {}, DbOk) : u \in {Sales1, Admin}}
    \cup {EditReq(Admin, 2, [remarks |-> "urgent"], {}, DbOk),
          EditReq(Admin, 1, [products |-> BadJson], {}, DbOk),
          EditReq(Admin, 1,
                  [products |-> List(<<[GoodProduct EXCEPT !.productType = ""]>>)],
                  {}, DbOk)}

EventDeleteReqs ==
    {With(DeleteReq(Sales1, 1, DbOk), o) :
        o \in Outcomes \ {[db |-> DbOk, mail |-> "fails"],
                          [db |-> [order |-> "validation", notification |-> "ok"]]}}
    \cup {DeleteReq(Admin, 1, DbOk)}

EventBulkReqs ==
    {[op |-> "bulkUploadOrders", user |-> Sales2, file |-> TRUE,
      rows |-> <<BulkRow>>, db |-> DbOk, io |-> io] : io \in {"ok", "throws"}}

\* what a client sends with join
JoinData ==
    {[userId |-> 1, role |-> "Sales"], [userId |-> 3, role |-> "Admin"]}

\* the change stream is open
InitEvents ==
    /\ orders = <<>>
    /\ notifications = <<>>
    /\ emitted = <<>>
    /\ response = NoResponse
    /\ lastReq = NoRequest
    /\ nextId = 1
    /\ users = NoTeams
    /\ now = 1
    /\ changeStream = Watching
    /\ sockets = <<>>
    /\ inflight = <<>>

EventsConnection ==
    /\ now <= MaxEventOps
    /\ Len(sockets) < MaxSockets
    /\ connection
EventsJoin ==
    /\ now <= MaxEventOps
    /\ \E socket \in DOMAIN sockets, data \in JoinData :
         /\ sockets[socket] = {}
         /\ join(socket, data)
EventsCreate ==
    /\ now <= MaxEventOps
    /\ orders = <<>>
    /\ \E req \in EventSeedReqs : createOrder(req)
EventsEdit ==
    /\ now <= MaxEventOps
    /\ \E req \in EventEditReqs : editEntry(req)
EventsDelete ==
    /\ now <= MaxEventOps
    /\ \E req \in EventDeleteReqs : DeleteData(req)
EventsBulk ==
    /\ now <= MaxEventOps
    /\ \E req \in EventBulkReqs : bulkUploadOrders(req)
EventsChange ==
    /\ now <= MaxEventOps
    /\ onChange

\* orders are written while sockets join and the change stream delivers
SpecEvents ==
    InitEvents /\ [][EventsConnection \/ EventsJoin \/ EventsCreate
                     \/ EventsEdit \/ EventsDelete \/ EventsBulk
                     \/ EventsChange]_vars

\* what the clients of the fan-out behaviours send with join
FanJoinData ==
    {[userId |-> 1, role |-> "Sales"], [userId |-> 2, role |-> "Sales"],
     [userId |-> 3, role |-> "Admin"]}

FanEditReqs ==
    {EditReq(u, 1, b, {}, DbOk) :
        u \in {Sales1, Admin},
        b \in {[remarks |-> "urgent"], [sostatus |-> "Approved"]}}

\* the store holds an order of user 1 that is assigned to user 2, and the
\* change stream is open
InitFanOut ==
    /\ now = 1
    /\ orders = (1 :> [createDocument(CreateReq(GoodBody, DbOk), 1)
                          EXCEPT !.assignedTo = 2])
    /\ notifications = <<>>
    /\ emitted = <<>>
    /\ response = NoResponse
    /\ lastReq = NoRequest
    /\ nextId = 2
    /\ users = NoTeams
    /\ changeStream = Watching
    /\ sockets = <<>>
    /\ inflight = <<>>

FanConnection ==
    /\ now <= MaxFanOps
    /\ Len(sockets) < MaxSockets
    /\ connection
FanJoin ==
    /\ now <= MaxFanOps
    /\ \E socket \in DOMAIN sockets, data \in FanJoinData : join(socket, data)
FanEdit ==
    /\ now <= MaxFanOps
    /\ \E req \in FanEditReqs : editEntry(req)
FanDelete ==
    /\ now <= MaxFanOps
    /\ \E u \in {Sales1, Admin} : DeleteData(DeleteReq(u, 1, DbOk))
FanBulk ==
    /\ now <= MaxFanOps
    /\ \E req \in EventBulkReqs : bulkUploadOrders(req)
FanChange ==
    /\ now <= MaxFanOps
    /\ onChange

\* an assigned order is edited and deleted and orders are imported while
\* sockets join rooms and the change stream delivers
SpecFanOut ==
    InitFanOut
    /\ [][FanConnection \/ FanJoin \/ FanEdit \/ FanDelete \/ FanBulk
           \/ FanChange]_vars

----------------------------------------------------------------------------
(* Properties of createOrder *)

\* the last request was a createOrder that answered 201
Created == lastReq.op = "createOrder" /\ response.status = 201
CreatedOrder == orders[response.data]

\* one more request was handled in this step
Step == now' = now + 1

NothingWritten ==
    orders' = orders /\ notifications' = notifications /\ emitted' = <<>>

\* the product list a request carries (empty when it has none or it is not JSON)
Items(req) ==
    IF Has(req.body, "products") THEN ParseProducts(req.body.products).items
    ELSE <<>>

IsNum(x) == x.kind = "num"

HasBadItem(req) ==
    \E i \in 1..Len(Items(req)) :
        LET p == Items(req)[i] IN
        \/ IsNum(NumProp(p, "qty")) /\ p.qty.v <= 0
        \/ IsNum(NumProp(p, "unitPrice")) /\ p.unitPrice.v < 0

\* C2: a createOrder request whose product list has an item with qty <= 0 or
\* unitPrice < 0 is answered 400, and no order, no notification and no event
\* comes of it.
C2_BadItemRejected ==
    [][(Step /\ lastReq'.op = "createOrder" /\ HasBadItem(lastReq'))
        => (response'.status = 400 /\ NothingWritten)]_vars

\* a two-product request whose first product is fine and whose second has a
\* negative price was refused
C2_Witness ==
    /\ lastReq.op = "createOrder"
    /\ Len(Items(lastReq)) = 2
    /\ Items(lastReq)[1] = GoodProduct
    /\ Items(lastReq)[2] = With(GoodProduct, [unitPrice |-> Num(-5)])
    /\ response.status = 400
    /\ response.error = "Invalid product data"
    /\ orders = <<>>

\* the total the specification states, from the request as sent
ClaimGst(p) == IF p.gst = "including" THEN 0 ELSE GstNumbers[p.gst]
ClaimLine(p) == p.qty.v * p.unitPrice.v * (100 + ClaimGst(p))
ClaimAmount(body, k) == IF Has(body, k) /\ IsNum(body[k]) THEN body[k].v ELSE 0
ClaimTotal(body) ==
    LET items == ParseProducts(body.products).items IN
    SumSeq([i \in 1..Len(items) |-> ClaimLine(items[i])])
    + 100 * ClaimAmount(body, "freightcs") + 100 * ClaimAmount(body, "installation")

IsExample(body) ==
    /\ body.products.items = ExampleProducts
    /\ ~Has(body, "total")
    /\ NumProp(body, "freightcs") = Num(20)
    /\ NumProp(body, "installation") = Num(0)

\* C3: a created order's total is the sum over its products of
\* qty * unitPrice * (1 + gst/100), gst 0 for "including", plus freight plus
\* installation when the request has no total (306 for the worked example),
\* and the supplied total when the request has a numeric one.
C3_CreateTotal ==
    Created =>
        LET body == lastReq.body IN
        /\ ~Has(body, "total") => CreatedOrder.total = ClaimTotal(body)
        /\ IsExample(body) => CreatedOrder.total = 306 * 100
        /\ (Has(body, "total") /\ IsNum(body.total))
              => CreatedOrder.total = 100 * body.total.v

C3_Witness ==
    Created /\ IsExample(lastReq.body) /\ CreatedOrder.total = 30600

\* C5: a created order's paymentDue is its stored total minus its
\* paymentCollected when the request has no paymentDue, also when the request
\* overrides the total.
C5_PaymentDueFromStoredTotal ==
    (Created /\ ~Has(lastReq.body, "paymentDue"))
        => NumberOfString(CreatedOrder.paymentDue)
             = CreatedOrder.total - NumberOfString(CreatedOrder.paymentCollected)

\* the error the specification states for a missing required field
ClaimFieldError(body) ==
    LET t == Str(body, "orderType") IN
    IF t = "B2G" /\ ~Truthy(Str(body, "gemOrderNumber"))
    THEN "Missing GEM Order Number"
    ELSE IF t = "Demo" /\ ~Truthy(Str(body, "demoDate"))
    THEN "Missing Demo Date"
    ELSE IF t \notin {"B2G", "Demo"} /\ ~Truthy(Str(body, "paymentTerms"))
    THEN "Payment Terms is required for non-Demo orders"
    ELSE ""

ProductsParse(body) ==
    Has(body, "products") => ParseProducts(body.products).ok

\* C6 as stated: every createOrder request that lacks the field its order
\* type requires is answered 400 with the error naming that field, and
\* nothing is written or published.
C6_Original ==
    [][(Step /\ lastReq'.op = "createOrder"
         /\ ClaimFieldError(lastReq'.body) # "")
        => (/\ response'.status = 400
            /\ response'.error = ClaimFieldError(lastReq'.body)
            /\ NothingWritten)]_vars

\* C6 amended: the same for requests whose products are not a malformed JSON
\* string; a malformed products string is rejected first, with 400 "Invalid
\* products format" and nothing written.
C6_RequiredFields ==
    [][(Step /\ lastReq'.op = "createOrder"
         /\ ClaimFieldError(lastReq'.body) # "")
        => (/\ response'.status = 400
            /\ response'.error =
                 (IF ProductsParse(lastReq'.body)
                  THEN ClaimFieldError(lastReq'.body)
                  ELSE "Invalid products format")
            /\ NothingWritten)]_vars

C6_Witness ==
    /\ lastReq.op = "createOrder"
    /\ Str(lastReq.body, "orderType") = "B2G"
    /\ ~Has(lastReq.body, "gemOrderNumber")
    /\ Has(lastReq.body, "paymentTerms")
    /\ ProductsParse(lastReq.body)
    /\ response = Response(400, "Missing GEM Order Number", "", 0)
    /\ orders = <<>> /\ notifications = <<>> /\ emitted = <<>>

\* C7: a created order whose request has no fulfillingStatus is "Fulfilled"
\* when the order type is Demo or the origin is not Morinda (or absent), and
\* "Not Fulfilled" otherwise.
C7_DefaultFulfillingStatus ==
    (Created /\ ~Has(lastReq.body, "fulfillingStatus"))
        => CreatedOrder.fulfillingStatus =
             (IF \/ Str(lastReq.body, "orderType") = "Demo"
                 \/ ~Has(lastReq.body, "dispatchFrom")
                 \/ lastReq.body.dispatchFrom # "Morinda"
              THEN "Fulfilled" ELSE "Not Fulfilled")

C7_Witness ==
    /\ Created
    /\ ~Has(lastReq.body, "fulfillingStatus")
    /\ Str(lastReq.body, "dispatchFrom") = "Morinda"
    /\ Str(lastReq.body, "orderType") = "B2G"
    /\ CreatedOrder.fulfillingStatus = "Not Fulfilled"

\* the warranty the specification derives for a product sent without one
ClaimWarranty(p, orderType) ==
    IF orderType = "B2G" THEN "As Per Tender"
    ELSE IF Str(p, "productType") = "IFPD" /\ Str(p, "brand") = "Promark"
    THEN "3 Years"
    ELSE "1 Year"

\* the request with a warranty written into every product that lacks one
WithWarranties(req) ==
    [req EXCEPT !.body.products.items =
        [i \in 1..Len(@) |-> IF Has(@[i], "warranty") THEN @[i]
                             ELSE With(@[i], [warranty |-> "1 Year"])]]

\* C8: a product sent without a warranty is accepted (the request succeeds
\* when it would succeed with warranties filled in) and is stored with the
\* derived warranty.
C8_WarrantyDerived ==
    (/\ lastReq.op = "createOrder"
     /\ lastReq.db = DbOk
     /\ Has(lastReq.body, "products")
     /\ createRejection(WithWarranties(lastReq)).status = 0)
        => /\ response.status = 201
           /\ \A i \in 1..Len(Items(lastReq)) :
                ~Has(Items(lastReq)[i], "warranty")
                    => CreatedOrder.products[i].warranty =
                         ClaimWarranty(Items(lastReq)[i],
                                       Str(lastReq.body, "orderType"))

----------------------------------------------------------------------------
(* Properties of editEntry *)

\* the step handled an editEntry request whose update was stored
EditStored ==
    /\ Step
    /\ lastReq'.op = "editEntry"
    /\ response'.status = 200 \/ response'.details = "save"

\* the order before and after the edit of this step
Before == orders[lastReq'.id]
After == orders'[lastReq'.id]

OtherLocations == validDispatchLocations \ {"Morinda"}

\* C10 as stated: every stored edit whose payload has a non-Morinda location
\* leaves the order "Fulfilled" and "Complete" with fulfillmentDate the time
\* of the edit.
C10_Original ==
    [][(EditStored /\ Str(lastReq'.body, "dispatchFrom") \in OtherLocations)
        => (/\ After.fulfillingStatus = "Fulfilled"
            /\ After.completionStatus = "Complete"
            /\ After.fulfillmentDate = now)]_vars

\* C10 amended: every stored edit that changes dispatchFrom to a non-Morinda
\* location from another stored value leaves the order "Fulfilled" and
\* "Complete" with fulfillmentDate the time of the edit.
C10_OtherLocationRule ==
    [][(/\ EditStored
        /\ Str(lastReq'.body, "dispatchFrom") \in OtherLocations
        /\ Before.dispatchFrom # lastReq'.body.dispatchFrom)
        => (/\ After.fulfillingStatus = "Fulfilled"
            /\ After.completionStatus = "Complete"
            /\ After.fulfillmentDate = now
            /\ After.dispatchFrom = lastReq'.body.dispatchFrom)]_vars

\* an edit of a Morinda order to Delhi that also asked for "Pending" was stored
\* as "Fulfilled" and "Complete", dated by the edit
C10_Witness ==
    /\ lastReq.op = "editEntry"
    /\ response.status = 200
    /\ Str(lastReq.body, "dispatchFrom") = "Delhi"
    /\ Str(lastReq.body, "fulfillingStatus") = "Pending"
    /\ orders[lastReq.id].fulfillingStatus = "Fulfilled"
    /\ orders[lastReq.id].completionStatus = "Complete"
    /\ orders[lastReq.id].fulfillmentDate = now - 1
    /\ orders[lastReq.id].soDate < now - 1

----------------------------------------------------------------------------
(* Properties of the workflow timestamps *)

\* the payload of this step changes the origin of the order
OriginChanging ==
    /\ Truthy(Str(lastReq'.body, "dispatchFrom"))
    /\ lastReq'.body.dispatchFrom # Before.dispatchFrom

\* the payload of this step carries a date that parses for the field
SuppliesDate(field) ==
    /\ Has(lastReq'.body, field)
    /\ ValidDate(lastReq'.body[field])

\* a stored edit with fulfillingStatus "Fulfilled" that leaves the origin alone
ManualFulfilled ==
    /\ EditStored
    /\ Str(lastReq'.body, "fulfillingStatus") = "Fulfilled"
    /\ ~OriginChanging

C12_ApprovalTimestamp ==
    [][(EditStored /\ Str(lastReq'.body, "sostatus") = "Approved")
        => (/\ After.sostatus = "Approved"
            /\ After.approvalTimestamp =
                 IF Before.sostatus # "Approved" THEN now
                 ELSE Before.approvalTimestamp)]_vars

\* an edit to "Approved" was stored on an order approved by an earlier edit,
\* and the timestamp is still the earlier one
C12_Witness ==
    /\ lastReq.op = "editEntry"
    /\ response.status = 200
    /\ Str(lastReq.body, "sostatus") = "Approved"
    /\ orders[lastReq.id].sostatus = "Approved"
    /\ orders[lastReq.id].approvalTimestamp # NoDate
    /\ orders[lastReq.id].approvalTimestamp < now - 1

WorkflowTimestamps ==
    {"approvalTimestamp", "productsEditTimestamp", "fulfillmentDate",
     "dispatchDate", "receiptDate"}

\* C13: over every editEntry step, a workflow timestamp of the edited order
\* that holds a value keeps that value.
C13_TimestampsSetOnce ==
    [][(Step /\ lastReq'.op = "editEntry" /\ lastReq'.id \in DOMAIN orders)
        => \A f \in WorkflowTimestamps :
              Before[f] # NoDate => After[f] = Before[f]]_vars

\* C14: every stored edit with dispatchStatus "Dispatched" or "Delivered" on an
\* order without dispatchDate stores a dispatchDate, the supplied one when it
\* parses and otherwise the time of the edit; and every stored edit with
\* dispatchStatus "Delivered" on an order without receiptDate stores a
\* receiptDate.
C14_DispatchDates ==
    [][EditStored
        => (/\ (/\ Str(lastReq'.body, "dispatchStatus")
                     \in {"Dispatched", "Delivered"}
                /\ Before.dispatchDate = NoDate)
                => After.dispatchDate =
                     IF SuppliesDate("dispatchDate")
                     THEN lastReq'.body.dispatchDate.v ELSE now
            /\ (/\ Str(lastReq'.body, "dispatchStatus") = "Delivered"
                /\ Before.receiptDate = NoDate)
                => After.receiptDate # NoDate)]_vars

----------------------------------------------------------------------------
(* Properties of the frame of editEntry *)

\* the payload of this step supplies the allow-listed field with a value other
\* than null that, for a date field, parses
ClaimSupplied(f) ==
    /\ f \in allowedFields
    /\ Has(lastReq'.body, f)
    /\ f \in DateFields => ValidDate(lastReq'.body[f])

\* the field belongs to a transition rule that the payload of this step
\* addresses
ClaimForced(f) ==
    \/ f = "approvalTimestamp" /\ Str(lastReq'.body, "sostatus") = "Approved"
    \/ f = "productsEditTimestamp" /\ Has(lastReq'.body, "products")
    \/ /\ f \in {"fulfillingStatus", "completionStatus", "fulfillmentDate"}
       /\ \/ Truthy(Str(lastReq'.body, "dispatchFrom"))
          \/ Str(lastReq'.body, "fulfillingStatus") = "Fulfilled"
    \/ /\ f = "dispatchDate"
       /\ Str(lastReq'.body, "dispatchStatus") \in {"Dispatched", "Delivered"}
    \/ f = "receiptDate" /\ Str(lastReq'.body, "dispatchStatus") = "Delivered"

\* C15: a stored edit changes no field of the order other than the allow-listed
\* fields its payload supplies (non-null, and for a date field parsable) and the
\* fields of the transition rules the payload addresses; createdBy and _id never
\* change; an edit that is not stored changes nothing.
C15_EditFrame ==
    [][(Step /\ lastReq'.op = "editEntry")
        => IF EditStored
           THEN /\ DOMAIN After = DOMAIN Before
                /\ \A f \in DOMAIN Before :
                     After[f] # Before[f] => ClaimSupplied(f) \/ ClaimForced(f)
                /\ After.createdBy = Before.createdBy
                /\ After._id = Before._id
           ELSE orders' = orders]_vars

\* a stored edit whose payload carried createdBy, _id, assignedTo and
\* approvalTimestamp next to remarks changed the remarks alone
C15_Witness ==
    /\ lastReq.op = "editEntry"
    /\ response.status = 200
    /\ Has(lastReq.body, "createdBy")
    /\ lastReq.body.createdBy # orders[lastReq.id].createdBy
    /\ orders[lastReq.id]._id = lastReq.id
    /\ orders[lastReq.id].assignedTo = 0
    /\ orders[lastReq.id].approvalTimestamp = NoDate
    /\ orders[lastReq.id].remarks = "call first"

----------------------------------------------------------------------------
(* Properties of the access to orders *)

\* the step handled a DeleteData request for a stored order, made by a user
\* who is not an admin and did not create the order
ForeignDelete ==
    /\ Step
    /\ lastReq'.op = "DeleteData"
    /\ lastReq'.id \in DOMAIN orders
    /\ lastReq'.user.role \in Roles \ {"Admin", "SuperAdmin"}
    /\ orders[lastReq'.id].createdBy # lastReq'.user.id

\* C16: every DeleteData request for a stored order by a user who is not an
\* admin and not the order's creator, a team leader of the creator included, is
\* refused: the order stays stored, no notification is stored and no event is
\* published.
C16_ForeignDeleteRefused ==
    [][ForeignDelete
        => (/\ response'.status = 403
            /\ orders' = orders
            /\ notifications' = notifications
            /\ emitted' = <<>>)]_vars

\* the leader of a team was refused the deletion of a team member's order
C16_Witness ==
    /\ lastReq.op = "DeleteData"
    /\ response.status = 403
    /\ lastReq.id \in DOMAIN orders
    /\ users[orders[lastReq.id].createdBy].assignedToLeader = lastReq.user.id
    /\ emitted = <<>>

\* C20: every editEntry request by a user who is not an admin, for a stored
\* order that is neither created by nor assigned to the user or a direct team
\* member, is refused and leaves the order, the notifications and the published
\* events unchanged.
C20_ForeignEditRefused ==
    [][(/\ Step
        /\ lastReq'.op = "editEntry"
        /\ lastReq'.id \in DOMAIN orders
        /\ ~IsAdmin(lastReq'.user)
        /\ lastReq'.id \notin scopedOrders(lastReq'.user.id))
        => (/\ response'.status >= 400
            /\ orders' = orders
            /\ notifications' = notifications
            /\ emitted' = <<>>)]_vars

----------------------------------------------------------------------------
(* Properties of the read handlers *)

\* the users the specification puts in the scope of an actor: the actor and
\* the users whose assignedToLeader is the actor
ClaimTeam(actor) ==
    {actor.id} \cup {u \in DOMAIN users : users[u].assignedToLeader = actor.id}

\* the orders the specification lets the actor see
ClaimVisible(actor) ==
    IF actor.role \in {"Admin", "SuperAdmin"} THEN DOMAIN orders
    ELSE {id \in DOMAIN orders :
            \/ orders[id].createdBy \in ClaimTeam(actor)
            \/ orders[id].assignedTo \in ClaimTeam(actor)}

\* C17: getAllOrders answers an admin with every order, and any other actor
\* with exactly the orders created by or assigned to the actor or a user whose
\* assignedToLeader is the actor.
C17_GetAllOrdersScope ==
    (lastReq.op = "getAllOrders" /\ response.status = 200)
        => response.orders = ClaimVisible(lastReq.user)

\* a leader read the order of a team member and not the stored order of that
\* member's own team member
C17_Witness ==
    /\ lastReq.op = "getAllOrders"
    /\ response.status = 200
    /\ ~IsAdmin(lastReq.user)
    /\ \E id \in response.orders :
         users[orders[id].createdBy].assignedToLeader = lastReq.user.id
    /\ \E id \in DOMAIN orders \ response.orders :
         LET leader == users[orders[id].createdBy].assignedToLeader IN
         /\ leader \in DOMAIN users
         /\ users[leader].assignedToLeader = lastReq.user.id

\* the orders the specification lets each dashboard count include: those of
\* the count's filter that the actor may see and that are not cancelled
ClaimCounted(actor, count) ==
    {id \in ClaimVisible(actor) :
        /\ orders[id].dispatchStatus # "Order Cancelled"
        /\ CASE count = "all" -> TRUE
             [] count = "installation" ->
                    /\ orders[id].dispatchStatus = "Delivered"
                    /\ orders[id].installationStatus
                         \in {"Pending", "In Progress", "Site Not Ready", "Hold"}
             [] count = "dispatch" ->
                    /\ orders[id].fulfillingStatus = "Fulfilled"
                    /\ orders[id].dispatchStatus # "Delivered"
             [] count = "production" ->
                    /\ orders[id].sostatus = "Approved"
                    /\ orders[id].dispatchFrom \notin dispatchFromOptions
                    /\ orders[id].fulfillingStatus # "Fulfilled"}

\* C18: each count getDashboardCounts returns counts only orders that are not
\* cancelled and, for a non-admin actor, only orders created by or assigned to
\* the actor or a direct team member.
C18_CountsExcludeCancelled ==
    (lastReq.op = "getDashboardCounts" /\ response.status = 200)
        => \A c \in DashboardCounts :
              response.counts[c] = Cardinality(ClaimCounted(lastReq.user, c))

ReadOrderOps == {"getAllOrders", "exportentry"} \cup WorkflowQueries

\* C19: no read endpoint returns to a non-admin actor an order that is neither
\* created by nor assigned to the actor or a direct team member.
C19_ReadsScoped ==
    (/\ lastReq.op \in ReadOrderOps
     /\ response.status = 200
     /\ ~IsAdmin(lastReq.user))
        => response.orders \subseteq ClaimVisible(lastReq.user)

----------------------------------------------------------------------------
(* Properties of the published events and of the failure modes *)

\* the channels the specification gives an order: its creator's, its
\* assignee's if it has one
ClaimOwnerRooms(order) ==
    {UserRoom(order.createdBy)}
    \cup (IF order.assignedTo # 0 THEN {UserRoom(order.assignedTo)} ELSE {})

\* the last request changed an order and answered with success
Succeeded(ops) == lastReq.op \in ops /\ response.status \in {200, 201}

\* C21: the notification event of every successful createOrder and editEntry
\* is published to exactly the creator's channel, the assignee's channel if the
\* order has one and "admins", and so reaches every socket that joined with the
\* creator's userId.
C21_NotificationRooms ==
    (Succeeded({"createOrder", "editEntry"}) /\ ~emitThrows(lastReq))
        => LET order == orders[response.data] IN
           \E i \in DOMAIN emitted :
              /\ emitted[i].name = "notification"
              /\ emitted[i].rooms = ClaimOwnerRooms(order) \cup {AdminsRoom}
              /\ \A socket \in DOMAIN sockets :
                    UserRoom(order.createdBy) \in sockets[socket]
                        => socket \in Receivers(emitted[i].rooms)

\* C22: no event of a successful DeleteData is published to a channel other
\* than the creator's and the assignee's; "admins" is not among its channels.
C22_DeleteRooms ==
    [][(/\ Step
        /\ lastReq'.op = "DeleteData"
        /\ response'.status = 200)
        => \A i \in DOMAIN emitted' :
              emitted'[i].rooms = ClaimOwnerRooms(orders[lastReq'.id])]_vars

\* the domain event the specification names for a handler
ClaimDomainEvent(op) ==
    CASE op = "createOrder" -> "newOrder"
      [] op = "editEntry" -> "orderUpdate"
      [] op = "DeleteData" -> "deleteOrder"

\* C23: every successful createOrder, editEntry and DeleteData publishes a
\* domain event (newOrder, orderUpdate, deleteOrder) for the order and a
\* notification event.
C23_TwoEvents ==
    (Succeeded({"createOrder", "editEntry", "DeleteData"})
     /\ ~emitThrows(lastReq))
        => LET id == IF lastReq.op = "DeleteData" THEN lastReq.id
                     ELSE response.data
           IN
           /\ \E i \in DOMAIN emitted :
                 /\ emitted[i].name = ClaimDomainEvent(lastReq.op)
                 /\ emitted[i].order = id
           /\ \E i \in DOMAIN emitted : emitted[i].name = "notification"

\* C24: every change event the change stream delivers, a delete included, is
\* republished as orderUpdate for the changed order, to the channels of the
\* order's creator and assignee.
C24_ChangeRepublished ==
    lastReq.op = "change"
        => /\ \E i \in DOMAIN emitted :
                 /\ emitted[i].name = "orderUpdate"
                 /\ emitted[i].order = lastReq.id
           /\ lastReq.id \in DOMAIN orders
                 => UNION {emitted[i].rooms : i \in DOMAIN emitted}
                        = ClaimOwnerRooms(orders[lastReq.id])

\* C25: a createOrder, editEntry, DeleteData or bulkUploadOrders request whose
\* mail or event publish fails after its order change is stored is answered
\* with success, and the change stays stored.
C25_FanOutFailureKeepsSuccess ==
    [][(/\ Step
        /\ lastReq'.op \in {"createOrder", "editEntry", "DeleteData",
                            "bulkUploadOrders"}
        /\ emitThrows(lastReq') \/ mailFails(lastReq')
        /\ orders' # orders)
        => response'.status \in {200, 201}]_vars

\* C26: every createOrder, editEntry and DeleteData request either answers
\* with success and stores exactly one notification with its order change, or
\* answers with an error and stores neither.
C26_SingleTransaction ==
    [][(/\ Step
        /\ lastReq'.op \in {"createOrder", "editEntry", "DeleteData"})
        => \/ /\ response'.status \in {200, 201}
              /\ Len(notifications') = Len(notifications) + 1
           \/ /\ response'.status \notin {200, 201}
              /\ orders' = orders
              /\ notifications' = notifications]_vars

\* C27: an editEntry request for an unknown id is answered 404, one whose
\* products are not a list or hold an invalid product 400, one whose update the
\* store refuses as invalid 400; each leaves the order and the notifications
\* unchanged and publishes and mails nothing.
C27_EditFailureModes ==
    [][(/\ Step
        /\ lastReq'.op = "editEntry"
        /\ lastReq'.id # MalformedId)
        => IF lastReq'.id \notin DOMAIN orders
           THEN response'.status = 404 /\ NothingWritten
           ELSE IF editProductsRejection(lastReq').status # 0
           THEN response'.status = 400 /\ NothingWritten
           ELSE lastReq'.db.order = "validation"
                    => (response'.status = 400 /\ NothingWritten)]_vars

----------------------------------------------------------------------------
(* Properties of the import and the export *)

\* the rows of a sheet that fail the import's validation
ClaimInvalidRows(rows) == {i \in 1..Len(rows) : bulkRowError(rows[i]) # ""}

ClaimBodyKeys ==
    [c \in {"Order Type", "GEM Order Number", "Payment Terms", "Dispatch From"}
        |-> CASE c = "Order Type" -> "orderType"
              [] c = "GEM Order Number" -> "gemOrderNumber"
              [] c = "Payment Terms" -> "paymentTerms"
              [] OTHER -> "dispatchFrom"]
ClaimProductKeys ==
    [c \in {"Product Type", "Quantity", "Unit Price", "GST", "Brand"}
        |-> CASE c = "Product Type" -> "productType"
              [] c = "Quantity" -> "qty"
              [] c = "Unit Price" -> "unitPrice"
              [] c = "GST" -> "gst"
              [] OTHER -> "brand"]
ClaimRenamed(row, keys) ==
    [k \in {keys[c] : c \in DOMAIN row \cap DOMAIN keys} |->
        row[CHOOSE c \in DOMAIN keys : keys[c] = k]]

\* the createOrder request with the order type, government order number,
\* payment terms, dispatchFrom and product of a row; the warranty is the one
\* the import gives the product
ClaimCreateReq(row) ==
    CreateReq(
        With(ClaimRenamed(row, ClaimBodyKeys),
             [products |->
                List(<<With(ClaimRenamed(row, ClaimProductKeys),
                            [warranty |-> bulkProduct(row).warranty])>>)]),
        DbOk)

\* C29: an upload of one row that the store accepts is accepted exactly when
\* createOrder accepts the order with that row's order type, government order
\* number, payment terms, dispatchFrom and product.
C29_ImportValidatesAsCreate ==
    (/\ lastReq.op = "bulkUploadOrders"
     /\ lastReq.file
     /\ Len(lastReq.rows) = 1
     /\ "exported" \notin DOMAIN lastReq
     /\ lastReq.db.order = "ok"
     /\ ~emitThrows(lastReq))
        => (response.status = 201
                <=> createRejection(ClaimCreateReq(lastReq.rows[1])).status = 0)

\* C30: the sheet exported for a stored order of one product is accepted by
\* bulkUploadOrders and stores an order with the same product type, quantity,
\* unit price, gst, dispatchFrom, customer and payment fields, and the same
\* day of soDate.
C30_ExportImportRoundTrip ==
    (/\ lastReq.op = "bulkUploadOrders"
     /\ "exported" \in DOMAIN lastReq
     /\ Len(lastReq.rows) = 1)
        => /\ response.status = 201
           /\ LET old == orders[lastReq.exported]
                  new == orders[nextId - 1]
              IN
              /\ new.products[1].productType = old.products[1].productType
              /\ new.products[1].qty = old.products[1].qty
              /\ new.products[1].unitPrice = old.products[1].unitPrice
              /\ new.products[1].gst = old.products[1].gst
              /\ new.dispatchFrom = old.dispatchFrom
              /\ new.customername = old.customername
              /\ new.total = old.total
              /\ new.paymentCollected = old.paymentCollected
              /\ new.paymentDue = old.paymentDue
              /\ ISODay(new.soDate) = ISODay(old.soDate)

-----------------------------------------------------------------------------
(* Properties of the exported sheet *)

\* the fields exportentry writes on the first row of an order only
ClaimOrderLevel ==
    {"total", "paymentCollected", "paymentDue", "freightcs", "installation"}
ClaimOrderLevelText ==
    {"orderType", "fulfillingStatus", "dispatchStatus", "sostatus", "remarks"}

\* the rows of an exported order: one per product, or the one placeholder row;
\* the first row carries the order-level fields and every later row has them
\* blank
ClaimRows(entry) ==
    LET rows == formattedEntries(entry) IN
    /\ Len(rows) = IF Len(entry.products) = 0 THEN 1 ELSE Len(entry.products)
    /\ Len(entry.products) = 0 => rows[1].productType = "Not Found"
    /\ rows[1].total = Num(entry.total)
    /\ rows[1].sostatus # "" /\ rows[1].dispatchStatus # ""
    /\ rows[1].fulfillingStatus # "" /\ rows[1].orderType # ""
    /\ rows[1].remarks = OrEmpty(entry.remarks)
    /\ \A i \in 2..Len(rows) :
        /\ \A k \in ClaimOrderLevel : rows[i][k] = Blank
        /\ \A k \in ClaimOrderLevelText : rows[i][k] = ""

\* C31: exportentry writes one row per product of each exported order, one
\* placeholder row for an order without products, and the order-level fields
\* (total, payments, charges, statuses, remarks) on the first row of the
\* order only, blank on its later rows
C31_ExportRows ==
    [][(Step /\ lastReq'.op = "exportentry" /\ response'.status = 200)
        => \A id \in response'.orders : ClaimRows(orders'[id])]_vars

\* an export of an order without products and of an order with two
C31_Witness ==
    /\ lastReq.op = "exportentry"
    /\ response.status = 200
    /\ \E id \in response.orders : Len(orders[id].products) = 0
    /\ \E id \in response.orders : Len(orders[id].products) = 2

-----------------------------------------------------------------------------
(* Properties of the teams *)

\* C32: the team hierarchy has at most two levels: no user that has an
\* assignedToLeader is the assignedToLeader of another user
C32_TwoLevels ==
    \A u \in DOMAIN users :
        users[u].assignedToLeader # 0
            => \A v \in DOMAIN users : users[v].assignedToLeader # u

-----------------------------------------------------------------------------
(* Properties of the production and accounts queues *)

ClaimStandardLocations ==
    {"Patna", "Bareilly", "Ranchi", "Lucknow", "Delhi", "Jaipur", "Rajasthan"}

\* the orders the accounts queue is to hold
ClaimAccountsOrders ==
    {id \in DOMAIN orders :
        /\ Str(orders[id], "paymentReceived") # "Received"
        /\ orders[id].dispatchStatus # "Order Cancelled"
        /\ \/ orders[id].installationStatus = "Completed"
           \/ Str(orders[id], "installchargesstatus") = "Not in Scope"}

\* the orders the production queue has to hold
ClaimMorindaOrders ==
    {id \in DOMAIN orders :
        /\ orders[id].sostatus = "Approved"
        /\ orders[id].dispatchFrom = "Morinda"
        /\ orders[id].fulfillingStatus # "Fulfilled"
        /\ orders[id].dispatchStatus # "Order Cancelled"}

C33_AccountsRead ==
    /\ lastReq.op = "getAccountsOrders"
    /\ response.status = 200
    /\ response.orders # {}

-----------------------------------------------------------------------------
(* Properties of the products comparison *)

\* a list of a supplied product, empty when the product does not carry it
ClaimList(p, k) == IF Has(p, k) THEN p[k] ELSE <<>>

\* the supplied products, once normalized, have the content of the stored ones:
\* type, qty, price, gst, brand, warranty, serialNos and modelNos
ClaimSameProducts(supplied, stored) ==
    /\ Len(supplied) = Len(stored)
    /\ \A i \in 1..Len(supplied) :
        /\ Str(supplied[i], "productType") = stored[i].productType
        /\ supplied[i].qty = Num(stored[i].qty)
        /\ supplied[i].unitPrice = Num(stored[i].unitPrice)
        /\ supplied[i].gst = stored[i].gst
        /\ supplied[i].warranty = stored[i].warranty
        /\ Str(supplied[i], "brand") = stored[i].brand
        /\ ClaimList(supplied[i], "serialNos") = stored[i].serialNos
        /\ ClaimList(supplied[i], "modelNos") = stored[i].modelNos

\* C36: a stored edit whose products equal the stored products leaves the
\* products and productsEditTimestamp unchanged; a stored edit whose products
\* differ replaces them and sets productsEditTimestamp to the time of the edit
C36_ProductsCompared ==
    [][(EditStored /\ Supplied(lastReq', "products"))
        => IF ClaimSameProducts(normalizedProducts(lastReq'), Before.products)
           THEN /\ After.products = Before.products
                /\ After.productsEditTimestamp = Before.productsEditTimestamp
           ELSE After.productsEditTimestamp = now]_vars

-----------------------------------------------------------------------------
(* Properties of the mails of editEntry *)

\* C37: a stored edit sends the status mail only when it changed the order's
\* dispatchStatus to "Dispatched" or "Delivered" and the order has a customer
\* email
C37_StatusMailOnChange ==
    [][EditStored
        => \A i \in 1..Len(emitted') :
              emitted'[i].name = "statusMail"
                  => /\ After.dispatchStatus \in {"Dispatched", "Delivered"}
                     /\ After.dispatchStatus # Before.dispatchStatus
                     /\ Truthy(After.customerEmail)]_vars

-----------------------------------------------------------------------------
(* Properties of the delivery to a connection *)

\* C35: of the events a step publishes, a connection receives at most one of
\* each name for each order, also when it has joined several of the rooms the
\* event goes to
C35_OneCopy ==
    \A socket \in DOMAIN sockets :
        \A i, j \in 1..Len(emitted) :
            (/\ i # j
             /\ emitted[i].name = emitted[j].name
             /\ emitted[i].order = emitted[j].order
             /\ socket \in Receivers(emitted[i].rooms))
                => socket \notin Receivers(emitted[j].rooms)

-----------------------------------------------------------------------------
(* Properties of concurrent requests *)

\* the step is the write of an editEntry that had read its order earlier
EditResumed ==
    /\ Step
    /\ lastReq'.op = "editEntry"
    /\ Has(lastReq', "readAt")

\* fields no transition rule reads or writes
ClaimPlainFields == {"remarks", "customername"}

\* C34: the write of an edit of plain fields, whatever other edits ran since
\* the edit read the order, stores the edit's values in the fields it
\* supplies and leaves every other field as the store held it just before:
\* edits over disjoint fields both stay, and of two edits of the same field
\* the value written last is stored
C34_NoLostUpdate ==
    [][(/\ EditResumed
        /\ response'.status = 200
        /\ DOMAIN lastReq'.body \subseteq ClaimPlainFields)
        => \A f \in DOMAIN After :
              After[f] = IF f \in DOMAIN lastReq'.body THEN lastReq'.body[f]
                         ELSE Before[f]]_vars

\* an edit of customername that read the order before an edit of remarks was
\* stored has been stored after it, and the order carries both values
C34_Witness ==
    /\ lastReq.op = "editEntry"
    /\ Has(lastReq, "readAt")
    /\ response.status = 200
    /\ DOMAIN lastReq.body = {"customername"}
    /\ \E n \in DOMAIN notifications :
        /\ notifications[n].action = "Order updated"
        /\ notifications[n].userId = 1
        /\ notifications[n].timestamp > lastReq.readAt
    /\ orders[1].remarks = "urgent"
    /\ orders[1].customername = "Kiran Rao"

\* C38: of the edits that approve an order, only one that finds the stored
\* order not yet approved writes approvalTimestamp and sends the approval
\* mail: the timestamp is written once and the mail is sent once
C38_ApprovedOnce ==
    [][(EditResumed /\ response'.status = 200)
        => ((\/ After.approvalTimestamp # Before.approvalTimestamp
             \/ \E i \in 1..Len(emitted') : emitted'[i].name = "approvalMail")
                => Before.sostatus # "Approved")]_vars

\* C39: an order that has been deleted stays absent from the store, and an
\* edit that read the order before the delete and writes after it is answered
\* 404, stores no Notification and publishes no event
C39_DeletedStaysDeleted ==
    [][/\ \A id \in 1..(nextId - 1) :
            id \notin DOMAIN orders => id \notin DOMAIN orders'
       /\ (EditResumed /\ lastReq'.id \notin DOMAIN orders)
            => /\ response'.status = 404
               /\ NothingWritten]_vars

\* an edit that read the order before it was deleted has been answered 404
C39_Witness ==
    /\ lastReq.op = "editEntry"
    /\ Has(lastReq, "readAt")
    /\ response.status = 404
    /\ lastReq.id \notin DOMAIN orders
    /\ \E n \in DOMAIN notifications :
        /\ notifications[n].action = "Order deleted"
        /\ notifications[n].order = lastReq.id
        /\ notifications[n].timestamp > lastReq.readAt

\* C40: assignUser answers that the assignment succeeded only for a user who
\* has no other leader when the assignment is stored: a user is not reassigned,
\* and of two leaders who assign the same user concurrently at most one
\* succeeds
C40_OneLeader ==
    [][(Step /\ lastReq'.op = "assignUser" /\ response'.status = 200)
        => users[lastReq'.userId].assignedToLeader \in {0, lastReq'.user.id}]_vars

\* the refusals C40 names: assignUser on a user who has a leader, or on the
\* actor, and unassignUser by another than the user's leader, are refused and
\* write nothing
ClaimRefusals ==
    [][(Step /\ lastReq'.op \in {"assignUser", "unassignUser"}
             /\ ~Has(lastReq', "readAt")
             /\ lastReq'.userId \in DOMAIN users)
        => IF lastReq'.op = "assignUser"
           THEN /\ response'.status = 400
                /\ \/ users[lastReq'.userId].assignedToLeader # 0
                   \/ lastReq'.userId = lastReq'.user.id
                /\ users' = users
           ELSE IF users[lastReq'.userId].assignedToLeader # lastReq'.user.id
           THEN response'.status = 403 /\ users' = users
           ELSE /\ response'.status = 200
                /\ users'[lastReq'.userId].assignedToLeader = 0]_vars

----------------------------------------------------------------------------
(* Properties of the stored orders *)

\* a stored product the data model allows
ClaimValidProduct(p) ==
    /\ p.productType \notin {"", Undefined}
    /\ p.qty > 0
    /\ p.unitPrice >= 0
    /\ p.gst = "including" \/ p.gst \in DOMAIN GstNumbers

\* C1: every product of every stored order has a productType, qty > 0,
\* unitPrice >= 0 and a gst that is a number or "including".
C1_ProductsValid ==
    \A id \in DOMAIN orders :
        \A i \in 1..Len(orders[id].products) :
            ClaimValidProduct(orders[id].products[i])

\* the total the specification states, from the stored order
ClaimStoredLine(p) ==
    p.qty * p.unitPrice
    * (100 + (IF p.gst \in DOMAIN GstNumbers THEN GstNumbers[p.gst] ELSE 0))
ClaimStoredTotal(o) ==
    SumSeq([i \in 1..Len(o.products) |-> ClaimStoredLine(o.products[i])])
    + 100 * (IF IsNum(o.freightcs) THEN o.freightcs.v ELSE 0)
    + 100 * (IF IsNum(o.installation) THEN o.installation.v ELSE 0)

\* C4: no request of the behaviour carries a total or a paymentDue, and every
\* stored order's total is the one computed from its stored products, freight
\* and installation, and its paymentDue is total minus paymentCollected.
C4_TotalsConsistent ==
    \A id \in DOMAIN orders :
        /\ orders[id].total = ClaimStoredTotal(orders[id])
        /\ NumberOfString(orders[id].paymentDue)
             = orders[id].total - NumberOfString(orders[id].paymentCollected)

=============================================================================
